---- MODULE Spec2Model ----
(***************************************************************************)
(* A model of the beacon-chain core of py-evm:                             *)
(*   - the legacy state machine (eth/beacon/state_machines/base.py):       *)
(*     import_block / process_block, the per-block and the per-cycle       *)
(*     transition and the process-wide block_vote_cache;                   *)
(*   - the validator lifecycle helpers on BeaconState                      *)
(*     (eth/beacon/validator_status_helpers.py, on_startup.py).            *)
(*                                                                         *)
(* Python values are modelled as follows.  A Hash32 is a string.  A tuple  *)
(* or list is a sequence; the element at Python index i is seq[i + 1].     *)
(* A field that may hold None is a record [is_none, items].  An exception  *)
(* raised by a call is the non-empty `error` field of the call's result.   *)
(***************************************************************************)
EXTENDS Integers, Sequences, FiniteSets, TLC

(***************************************************************************)
(* Bounds of the model (configuration values scaled down).                 *)
(***************************************************************************)
CYCLE_LENGTH == 2
MIN_DYNASTY_LENGTH == 2
MaxCalls == 3
MaxOps == 2
FAR_FUTURE_SLOT == 50
ENTRY_EXIT_DELAY == 2
EPOCH_LENGTH == 2
LATEST_PENALIZED_EXIT_LENGTH == 2
WHISTLEBLOWER_REWARD_QUOTIENT == 2
MAX_DEPOSIT == 4
LATEST_BLOCK_ROOTS_LENGTH == 2
LATEST_RANDAO_MIXES_LENGTH == 4
MaxSlot == 1
HashBytes == 7
MaxLen == 3
MaxRounds == 2
MaxSplit == 4
SHARD_COUNT == 4
TARGET_COMMITTEE_SIZE == 1
MaxDeposits == 3
MaxAttestations == 3
MaxDepth == 3

GENESIS_SLOT == 0

ZERO_HASH32 == "ZERO"
GENESIS_PARENT_HASH == ZERO_HASH32

NoneValue == [is_none |-> TRUE, items |-> << >>]
Some(s) == [is_none |-> FALSE, items |-> s]

Max(a, b) == IF a >= b THEN a ELSE b
Min(a, b) == IF a <= b THEN a ELSE b

InSeq(x, s) == \E i \in 1..Len(s) : s[i] = x
Repeat(x, n) == [i \in 1..n |-> x]

VOTER_INDICES == "VOTER_INDICES"
VOTER_TOTAL_BALANCE == "VOTER_TOTAL_BALANCE"

(***************************************************************************)
(* block_vote_cache = LRU(1024): a dict from processed block hash to a     *)
(* dict from attested block hash to {VOTER_INDICES, VOTER_TOTAL_BALANCE}.  *)
(* The inner dicts are mutable objects and two keys may hold the same      *)
(* object, so the model keeps, beside the contents (`dict`), for every key *)
(* the set of keys that hold the same object (`alias`).  The capacity of   *)
(* 1024 entries is never reached by the bounded set of block hashes, so    *)
(* eviction is not modelled.                                               *)
(***************************************************************************)
EmptyDict == [h \in {} |-> 0]
EmptyCache == [dict |-> EmptyDict, alias |-> EmptyDict]

\* A faulty variant of CacheSetNew: an entry the cache already holds is kept
\* (setdefault) instead of being replaced by a new empty dict.
CacheSetNew_keep(C, k) ==
    IF k \in DOMAIN C.dict THEN C
    ELSE [dict  |-> [j \in DOMAIN C.dict \cup {k} |-> IF j = k THEN EmptyDict ELSE C.dict[j]],
          alias |-> [j \in DOMAIN C.dict \cup {k} |-> IF j = k THEN {k} ELSE C.alias[j]]]

\* block_vote_cache[k] = {}
CacheSetNew(C, k) ==
    LET D == DOMAIN C.dict \cup {k} IN
    [dict  |-> [j \in D |-> IF j = k THEN EmptyDict ELSE C.dict[j]],
     alias |-> [j \in D |-> IF j = k THEN {k} ELSE C.alias[j] \ {k}]]

\* block_vote_cache[k] = block_vote_cache[p], for p a key of the cache
CacheSetAlias(C, k, p) ==
    LET D == DOMAIN C.dict \cup {k}
        cls == C.alias[p] \cup {k}
    IN  [dict  |-> [j \in D |-> IF j = k THEN C.dict[p] ELSE C.dict[j]],
         alias |-> [j \in D |-> IF j \in cls THEN cls ELSE C.alias[j] \ {k}]]

\* an in-place update of the object block_vote_cache[k]
CacheMutate(C, k, inner) ==
    [dict  |-> [j \in DOMAIN C.dict |-> IF j \in C.alias[k] THEN inner ELSE C.dict[j]],
     alias |-> C.alias]

(***************************************************************************)
(* Records of the legacy state machine.                                    *)
(***************************************************************************)
Attestation(slot, oblique, bitfield, justified_block_hash, sig_ok) ==
    [slot |-> slot, shard_id |-> 0, oblique_parent_hashes |-> oblique,
     attester_bitfield |-> bitfield, justified_slot |-> 0,
     justified_block_hash |-> justified_block_hash, aggregate_sig_ok |-> sig_ok]

\* A block.  Its two state roots are modelled by the states they are the hashes
\* of; parent_proposer_ok says whether the block carries the attestation of its
\* parent's proposer.
Block(hash, parent_hash, slot_number, attestations, proposer_ok, roots) ==
    [hash |-> hash, parent_hash |-> parent_hash, slot_number |-> slot_number,
     attestations |-> attestations, parent_proposer_ok |-> proposer_ok,
     crystallized_state_root |-> roots[1], active_state_root |-> roots[2]]

ActiveState(pending_attestations, recent_block_hashes) ==
    [pending_attestations |-> pending_attestations,
     recent_block_hashes |-> recent_block_hashes]

\* CrystallizedState.total_balance: the sum of the validators' balances (every
\* validator of the modelled registry is active).
RECURSIVE SumBalances(_, _)
SumBalances(items, n) ==
    IF n = 0 THEN 0 ELSE items[n].balance + SumBalances(items, n - 1)

total_balance(crystallized_state) ==
    SumBalances(crystallized_state.validators.items,
                Len(crystallized_state.validators.items))

\* has_voted(bitfield, index), index counted from 0
has_voted(bitfield, index) == index + 1 <= Len(bitfield) /\ bitfield[index + 1]

(***************************************************************************)
(* Helpers of eth/beacon/helpers.py and state_machines/validation.py.      *)
(***************************************************************************)
\* The ring shifted forward by current_slot - parent_slot, the freed places
\* filled with parent_hash.
get_new_recent_block_hashes(old_block_hashes, parent_slot, current_slot, parent_hash) ==
    LET shift_size == current_slot - parent_slot
        parent_hash_repeat == Min(shift_size, Len(old_block_hashes))
    IN  SubSeq(old_block_hashes, shift_size + 1, Len(old_block_hashes))
            \o Repeat(parent_hash, parent_hash_repeat)

\* The cycle-length prefix of the ring plus the attestation's oblique hashes.
get_signed_parent_hashes(recent_block_hashes, block, attestation, cycle_length) ==
    SubSeq(recent_block_hashes, 1, Min(cycle_length, Len(recent_block_hashes)))
        \o attestation.oblique_parent_hashes

\* The committee assigned to attestation.slot and attestation.shard_id.
CommitteeOf(crystallized_state, attestation, cycle_length) ==
    LET sched == crystallized_state.shard_and_committee_for_slots
        idx == attestation.slot - (crystallized_state.last_state_recalc - cycle_length)
        inRange == idx >= 0 /\ idx < Len(sched)
        m == IF inRange
             THEN {c \in 1..Len(sched[idx + 1]) :
                      sched[idx + 1][c].shard_id = attestation.shard_id}
             ELSE {}
    IN  IF m = {} THEN [found |-> FALSE, committee |-> << >>]
        ELSE [found |-> TRUE,
              committee |-> sched[idx + 1][CHOOSE c \in m : \A d \in m : c <= d].committee]

get_attestation_indices(crystallized_state, attestation, cycle_length) ==
    CommitteeOf(crystallized_state, attestation, cycle_length).committee

\* validate_attestation: the committee exists, the bitfield has one bit per
\* seat, the justified block is known to the chain database and the
\* aggregate signature verifies.  TRUE when the attestation is accepted.
validate_attestation(block, parent_block, crystallized_state, recent_block_hashes, attestation, chaindb, cycle_length) ==
    LET c == CommitteeOf(crystallized_state, attestation, cycle_length) IN
    /\ c.found
    /\ Len(attestation.attester_bitfield) = Len(c.committee)
    /\ \E b \in chaindb : b.hash = attestation.justified_block_hash
    /\ attestation.aggregate_sig_ok

\* validate_parent_block_proposer: the block carries the attestation of the
\* parent block's proposer.  TRUE when accepted.
validate_parent_block_proposer(crystallized_state, block, parent_block, cycle_length) ==
    block.parent_proposer_ok

\* validate_state_roots.  TRUE when the recomputed roots are the block's.
validate_state_roots(crystallized_state_root, active_state_root, block) ==
    /\ block.crystallized_state_root = crystallized_state_root
    /\ block.active_state_root = active_state_root

\* The hash (root) of a state: injective, so the state stands for its hash.
StateRoot(state) == state

(***************************************************************************)
(* The vote cache accessors (base.py, 383-407).                            *)
(***************************************************************************)
Entry(voter_indices, voter_total_balance) ==
    [VOTER_INDICES |-> voter_indices, VOTER_TOTAL_BALANCE |-> voter_total_balance]

init_block_vote_cache_block_hash(C, attestation_block_hash, block_hash) ==
    LET C1 == IF attestation_block_hash \notin DOMAIN C.dict
              THEN CacheSetNew(C, attestation_block_hash)
              ELSE C
        inner == C1.dict[attestation_block_hash]
    IN  IF block_hash \notin DOMAIN inner
        THEN CacheMutate(C1, attestation_block_hash,
                 [h \in DOMAIN inner \cup {block_hash} |->
                     IF h = block_hash THEN Entry(<< >>, 0) ELSE inner[h]])
        ELSE C1

\* error = "KeyError" when either key is missing
get_voter_of_block_hash(C, attestation_block_hash, block_hash) ==
    IF attestation_block_hash \in DOMAIN C.dict
       /\ block_hash \in DOMAIN C.dict[attestation_block_hash]
    THEN [error |-> "",
          voter_indices |-> C.dict[attestation_block_hash][block_hash].VOTER_INDICES,
          voter_total_balance |->
              C.dict[attestation_block_hash][block_hash].VOTER_TOTAL_BALANCE]
    ELSE [error |-> "KeyError", voter_indices |-> << >>, voter_total_balance |-> 0]

set_voter_of_block_hash(C, attestation_block_hash, block_hash, voter_indices, voter_total_balance) ==
    CacheMutate(C, attestation_block_hash,
        [C.dict[attestation_block_hash] EXCEPT
            ![block_hash] = Entry(voter_indices, voter_total_balance)])

(***************************************************************************)
(* get_updated_block_vote_cache (base.py, 409-454).                        *)
(***************************************************************************)
\* A faulty variant of FoldSeats: a validator already recorded for the key
\* is recorded, and its balance added, again.
RECURSIVE FoldSeats_recount(_, _, _, _, _)
FoldSeats_recount(crystallized_state, attestation, attestation_indices, committee_index, acc) ==
    IF acc.error # "" \/ committee_index >= Len(attestation_indices) THEN acc
    ELSE LET validator_index == attestation_indices[committee_index + 1] IN
         IF has_voted(attestation.attester_bitfield, committee_index)
         THEN IF crystallized_state.validators.is_none
              THEN [acc EXCEPT !.error = "TypeError"]
              ELSE FoldSeats_recount(crystallized_state, attestation, attestation_indices,
                             committee_index + 1,
                             [error |-> "",
                              voter_indices |-> Append(acc.voter_indices, validator_index),
                              voter_total_balance |-> acc.voter_total_balance +
                                  crystallized_state.validators.items[validator_index + 1].balance])
         ELSE FoldSeats_recount(crystallized_state, attestation, attestation_indices,
                        committee_index + 1, acc)

\* lines 442-448: the seats of the committee from seat committee_index on
RECURSIVE FoldSeats(_, _, _, _, _)
FoldSeats(crystallized_state, attestation, attestation_indices, committee_index, acc) ==
    IF acc.error # "" \/ committee_index >= Len(attestation_indices) THEN acc
    ELSE LET validator_index == attestation_indices[committee_index + 1] IN
         IF has_voted(attestation.attester_bitfield, committee_index)
            /\ ~InSeq(validator_index, acc.voter_indices)
         THEN IF crystallized_state.validators.is_none
              THEN [acc EXCEPT !.error = "TypeError"]
              ELSE FoldSeats(crystallized_state, attestation, attestation_indices,
                             committee_index + 1,
                             [error |-> "",
                              voter_indices |-> Append(acc.voter_indices, validator_index),
                              voter_total_balance |-> acc.voter_total_balance +
                                  crystallized_state.validators.items[validator_index + 1].balance])
         ELSE FoldSeats(crystallized_state, attestation, attestation_indices,
                        committee_index + 1, acc)

\* lines 428-454: the parent hashes from position n on; res = [error, cache]
RECURSIVE FoldParentHashes(_, _, _, _, _, _, _)
FoldParentHashes(res, crystallized_state, attestation, block, parent_hashes, attestation_indices, n) ==
    IF res.error # "" \/ n > Len(parent_hashes) THEN res
    ELSE LET parent_hash == parent_hashes[n] IN
         IF InSeq(parent_hash, attestation.oblique_parent_hashes)
         THEN FoldParentHashes(res, crystallized_state, attestation, block,
                               parent_hashes, attestation_indices, n + 1)
         ELSE LET C1 == init_block_vote_cache_block_hash(res.cache, block.hash, parent_hash)
                  got == get_voter_of_block_hash(C1, block.hash, parent_hash)
                  folded == FoldSeats(crystallized_state, attestation,
                                      attestation_indices, 0, got)
              IN  IF folded.error # ""
                  THEN [error |-> folded.error, cache |-> C1]
                  ELSE FoldParentHashes(
                           [error |-> "",
                            cache |-> set_voter_of_block_hash(C1, block.hash, parent_hash,
                                          folded.voter_indices, folded.voter_total_balance)],
                           crystallized_state, attestation, block,
                           parent_hashes, attestation_indices, n + 1)

\* A faulty variant of get_updated_block_vote_cache: the entry of the block
\* is emptied before an attestation is folded, so the votes recorded are
\* those of the last attestation.
get_updated_block_vote_cache_overwrite(C, crystallized_state, active_state, attestation, block, cycle_length) ==
    LET parent_hashes == get_signed_parent_hashes(active_state.recent_block_hashes,
                                                  block, attestation, cycle_length)
        attestation_indices == get_attestation_indices(crystallized_state,
                                                       attestation, cycle_length)
    IN  FoldParentHashes([error |-> "", cache |-> CacheSetNew(C, block.hash)],
                         crystallized_state, attestation, block, parent_hashes,
                         attestation_indices, 1)

get_updated_block_vote_cache(C, crystallized_state, active_state, attestation, block, cycle_length) ==
    LET parent_hashes == get_signed_parent_hashes(active_state.recent_block_hashes,
                                                  block, attestation, cycle_length)
        attestation_indices == get_attestation_indices(crystallized_state,
                                                       attestation, cycle_length)
    IN  FoldParentHashes([error |-> "", cache |-> C], crystallized_state, attestation,
                         block, parent_hashes, attestation_indices, 1)

(***************************************************************************)
(* compute_per_block_transtion (base.py, 326-381).                         *)
(* The result is [error, cache, active_state].                             *)
(***************************************************************************)
\* lines 358-374: the attestations of the block from position n on
RECURSIVE FoldAttestations(_, _, _, _, _, _, _, _)
FoldAttestations(res, crystallized_state, active_state, block, parent_block, recent_block_hashes, chaindb, n) ==
    IF res.error # "" \/ n > Len(block.attestations) THEN res
    ELSE LET attestation == block.attestations[n] IN
         IF ~validate_attestation(block, parent_block, crystallized_state,
                                  recent_block_hashes, attestation, chaindb, CYCLE_LENGTH)
         THEN [error |-> "ValidationError", cache |-> res.cache]
         ELSE FoldAttestations(
                  get_updated_block_vote_cache(res.cache, crystallized_state,
                      active_state, attestation, block, CYCLE_LENGTH),
                  crystallized_state, active_state, block, parent_block,
                  recent_block_hashes, chaindb, n + 1)

\* A faulty variant of compute_per_block_transtion: when the cache already
\* holds an entry for the block, its votes are reused and the attestations are
\* neither validated nor folded again.
compute_per_block_transtion_memo(C, crystallized_state, active_state, block, chaindb, cycle_length) ==
    IF ~\E p \in chaindb : p.hash = block.parent_hash
    THEN [error |-> "BlockNotFound", cache |-> C, active_state |-> active_state]
    ELSE
    LET parent_block == CHOOSE p \in chaindb : p.hash = block.parent_hash
        recent_block_hashes ==
            get_new_recent_block_hashes(active_state.recent_block_hashes,
                parent_block.slot_number, block.slot_number, block.parent_hash)
    IN  IF parent_block.parent_hash # GENESIS_PARENT_HASH
           /\ ~validate_parent_block_proposer(crystallized_state, block,
                                              parent_block, cycle_length)
        THEN [error |-> "ValidationError", cache |-> C, active_state |-> active_state]
        ELSE
        LET folded == IF block.hash \in DOMAIN C.dict
                      THEN [error |-> "", cache |-> C]
                      ELSE FoldAttestations([error |-> "", cache |-> CacheSetNew(C, block.hash)],
                               crystallized_state, active_state, block, parent_block,
                               recent_block_hashes, chaindb, 1)
        IN  IF folded.error # ""
            THEN [error |-> folded.error, cache |-> folded.cache,
                  active_state |-> active_state]
            ELSE [error |-> "", cache |-> folded.cache,
                  active_state |->
                      ActiveState(active_state.pending_attestations \o block.attestations,
                                  recent_block_hashes)]

\* A faulty variant of compute_per_block_transtion: the block's attestations
\* are put before the pending ones.
compute_per_block_transtion_prepend(C, crystallized_state, active_state, block, chaindb, cycle_length) ==
    IF ~\E p \in chaindb : p.hash = block.parent_hash
    THEN [error |-> "BlockNotFound", cache |-> C, active_state |-> active_state]
    ELSE
    LET parent_block == CHOOSE p \in chaindb : p.hash = block.parent_hash
        recent_block_hashes ==
            get_new_recent_block_hashes(active_state.recent_block_hashes,
                parent_block.slot_number, block.slot_number, block.parent_hash)
    IN  IF parent_block.parent_hash # GENESIS_PARENT_HASH
           /\ ~validate_parent_block_proposer(crystallized_state, block,
                                              parent_block, cycle_length)
        THEN [error |-> "ValidationError", cache |-> C, active_state |-> active_state]
        ELSE
        LET C1 == CacheSetNew(C, block.hash)
            folded == FoldAttestations([error |-> "", cache |-> C1], crystallized_state,
                          active_state, block, parent_block, recent_block_hashes,
                          chaindb, 1)
        IN  IF folded.error # ""
            THEN [error |-> folded.error, cache |-> folded.cache,
                  active_state |-> active_state]
            ELSE [error |-> "", cache |-> folded.cache,
                  active_state |->
                      ActiveState(block.attestations \o active_state.pending_attestations,
                                  recent_block_hashes)]

compute_per_block_transtion(C, crystallized_state, active_state, block, chaindb, cycle_length) ==
    IF ~\E p \in chaindb : p.hash = block.parent_hash
    THEN [error |-> "BlockNotFound", cache |-> C, active_state |-> active_state]
    ELSE
    LET parent_block == CHOOSE p \in chaindb : p.hash = block.parent_hash
        recent_block_hashes ==
            get_new_recent_block_hashes(active_state.recent_block_hashes,
                parent_block.slot_number, block.slot_number, block.parent_hash)
    IN  IF parent_block.parent_hash # GENESIS_PARENT_HASH
           /\ ~validate_parent_block_proposer(crystallized_state, block,
                                              parent_block, cycle_length)
        THEN [error |-> "ValidationError", cache |-> C, active_state |-> active_state]
        ELSE
        LET C1 == CacheSetNew(C, block.hash)
            folded == FoldAttestations([error |-> "", cache |-> C1], crystallized_state,
                          active_state, block, parent_block, recent_block_hashes,
                          chaindb, 1)
        IN  IF folded.error # ""
            THEN [error |-> folded.error, cache |-> folded.cache,
                  active_state |-> active_state]
            ELSE [error |-> "", cache |-> folded.cache,
                  active_state |->
                      ActiveState(active_state.pending_attestations \o block.attestations,
                                  recent_block_hashes)]

(***************************************************************************)
(* initialize_new_cycle (base.py, 479-564).                                *)
(***************************************************************************)
\* lines 497-506: the balance attesting to the window hash block_hash,
\* [error, balance]
total_balance_attesting_at_s(C, block, block_hash) ==
    LET got == get_voter_of_block_hash(C, block.hash, block.hash) IN
    IF got.error # "" THEN [error |-> got.error, balance |-> 0]
    ELSE IF block_hash \in DOMAIN C.dict[block.hash]
    THEN [error |-> "", balance |-> got.voter_total_balance]
    ELSE [error |-> "", balance |-> 0]

\* A faulty variant of JustifySlot: a slot without two thirds of the balance
\* leaves the streak as it is instead of resetting it.
JustifySlot_streak_kept(acc, slot, attesting, total) ==
    LET justified == 3 * attesting >= 2 * total
        justified_streak ==
            IF justified THEN acc.justified_streak + 1 ELSE acc.justified_streak
    IN  [error |-> "",
         last_justified_slot |->
             IF justified THEN Max(acc.last_justified_slot, slot)
             ELSE acc.last_justified_slot,
         justified_streak |-> justified_streak,
         last_finalized_slot |->
             IF justified_streak >= CYCLE_LENGTH + 1
             THEN Max(acc.last_finalized_slot, slot - CYCLE_LENGTH - 1)
             ELSE acc.last_finalized_slot]

\* A faulty variant of JustifySlot: a streak of CYCLE_LENGTH is enough to
\* finalize.
JustifySlot_finalize_short(acc, slot, attesting, total) ==
    LET justified == 3 * attesting >= 2 * total
        justified_streak == IF justified THEN acc.justified_streak + 1 ELSE 0
    IN  [error |-> "",
         last_justified_slot |->
             IF justified THEN Max(acc.last_justified_slot, slot)
             ELSE acc.last_justified_slot,
         justified_streak |-> justified_streak,
         last_finalized_slot |->
             IF justified_streak >= CYCLE_LENGTH
             THEN Max(acc.last_finalized_slot, slot - CYCLE_LENGTH - 1)
             ELSE acc.last_finalized_slot]

\* A faulty variant of JustifySlot: the slot finalized is the one after the
\* justified slot instead of the one CYCLE_LENGTH + 1 before it.
JustifySlot_finalize_ahead(acc, slot, attesting, total) ==
    LET justified == 3 * attesting >= 2 * total
        justified_streak == IF justified THEN acc.justified_streak + 1 ELSE 0
    IN  [error |-> "",
         last_justified_slot |->
             IF justified THEN Max(acc.last_justified_slot, slot)
             ELSE acc.last_justified_slot,
         justified_streak |-> justified_streak,
         last_finalized_slot |->
             IF justified_streak >= CYCLE_LENGTH + 1
             THEN Max(acc.last_finalized_slot, slot + 1)
             ELSE acc.last_finalized_slot]

\* A faulty variant of JustifySlot: the justified slot is assigned without
\* taking the maximum with the slot justified before.
JustifySlot_no_max(acc, slot, attesting, total) ==
    LET justified == 3 * attesting >= 2 * total
        justified_streak == IF justified THEN acc.justified_streak + 1 ELSE 0
    IN  [error |-> "",
         last_justified_slot |-> IF justified THEN slot ELSE acc.last_justified_slot,
         justified_streak |-> justified_streak,
         last_finalized_slot |->
             IF justified_streak >= CYCLE_LENGTH + 1
             THEN Max(acc.last_finalized_slot, slot - CYCLE_LENGTH - 1)
             ELSE acc.last_finalized_slot]

\* lines 508-516: justification, streak and finality of one slot;
\* acc = [error, last_justified_slot, justified_streak, last_finalized_slot]
JustifySlot(acc, slot, attesting, total) ==
    LET justified == 3 * attesting >= 2 * total
        last_justified_slot ==
            IF justified THEN Max(acc.last_justified_slot, slot)
            ELSE acc.last_justified_slot
        justified_streak == IF justified THEN acc.justified_streak + 1 ELSE 0
        last_finalized_slot ==
            IF justified_streak >= CYCLE_LENGTH + 1
            THEN Max(acc.last_finalized_slot, slot - CYCLE_LENGTH - 1)
            ELSE acc.last_finalized_slot
    IN  [error |-> "", last_justified_slot |-> last_justified_slot,
         justified_streak |-> justified_streak,
         last_finalized_slot |-> last_finalized_slot]

\* lines 494-516: the slots of the window from index_in_cycle on
RECURSIVE WalkCycle(_, _, _, _, _, _, _)
WalkCycle(C, last_state_recalc, total, active_state, block, index_in_cycle, acc) ==
    IF acc.error # "" \/ index_in_cycle >= CYCLE_LENGTH THEN acc
    ELSE
    LET slot == index_in_cycle + (last_state_recalc - CYCLE_LENGTH)
        block_hash == active_state.recent_block_hashes[index_in_cycle + 1]
        attesting == total_balance_attesting_at_s(C, block, block_hash)
    IN  IF attesting.error # "" THEN [acc EXCEPT !.error = attesting.error]
        ELSE WalkCycle(C, last_state_recalc, total, active_state, block,
                       index_in_cycle + 1,
                       JustifySlot(acc, slot, attesting.balance, total))

\* process_updated_crosslinks and apply_rewards_and_penalties are stubs
\* (`pass`): they return None.
process_updated_crosslinks(crystallized_state, active_state, block) == NoneValue
apply_rewards_and_penalties(crystallized_state, active_state, block) == NoneValue
\* compute_dynasty_transition (base.py, 614-618): the body is `pass`.
compute_dynasty_transition(crystallized_state, block) == NoneValue

\* A faulty variant of initialize_new_cycle: the attestations of slot
\* last_state_recalc are dropped as well.
initialize_new_cycle_strict(C, crystallized_state, active_state, block) ==
    IF crystallized_state.validators.is_none
    THEN [error |-> "TypeError", crystallized_state |-> crystallized_state,
          active_state |-> active_state]
    ELSE
    LET last_state_recalc == crystallized_state.last_state_recalc
        walked == WalkCycle(C, last_state_recalc, total_balance(crystallized_state),
                      active_state, block, 0,
                      [error |-> "",
                       last_justified_slot |-> crystallized_state.last_justified_slot,
                       justified_streak |-> crystallized_state.justified_streak,
                       last_finalized_slot |-> crystallized_state.last_finalized_slot])
        crosslink_records == process_updated_crosslinks(crystallized_state,
                                                        active_state, block)
        pending_attestations ==
            SelectSeq(active_state.pending_attestations,
                      LAMBDA attestation : attestation.slot > last_state_recalc)
        validators == apply_rewards_and_penalties(crystallized_state,
                                                  active_state, block)
        old == crystallized_state.shard_and_committee_for_slots
        shard_and_committee_for_slots ==
            SubSeq(old, CYCLE_LENGTH + 1, Len(old)) \o SubSeq(old, CYCLE_LENGTH + 1, Len(old))
    IN  IF walked.error # ""
        THEN [error |-> walked.error, crystallized_state |-> crystallized_state,
              active_state |-> active_state]
        ELSE [error |-> "",
              crystallized_state |->
                  [validators |-> validators,
                   last_state_recalc |-> last_state_recalc + CYCLE_LENGTH,
                   shard_and_committee_for_slots |-> shard_and_committee_for_slots,
                   last_justified_slot |-> walked.last_justified_slot,
                   justified_streak |-> walked.justified_streak,
                   last_finalized_slot |-> walked.last_finalized_slot,
                   current_dynasty |-> crystallized_state.current_dynasty,
                   crosslink_records |-> crosslink_records,
                   dynasty_seed |-> crystallized_state.dynasty_seed,
                   dynasty_start |-> crystallized_state.dynasty_start],
              active_state |->
                  ActiveState(pending_attestations, active_state.recent_block_hashes)]

\* A variant of initialize_new_cycle that leaves the committee schedule as it
\* was instead of copying its back half to the front.
initialize_new_cycle_keep_front(C, crystallized_state, active_state, block) ==
    IF crystallized_state.validators.is_none
    THEN [error |-> "TypeError", crystallized_state |-> crystallized_state,
          active_state |-> active_state]
    ELSE
    LET last_state_recalc == crystallized_state.last_state_recalc
        walked == WalkCycle(C, last_state_recalc, total_balance(crystallized_state),
                      active_state, block, 0,
                      [error |-> "",
                       last_justified_slot |-> crystallized_state.last_justified_slot,
                       justified_streak |-> crystallized_state.justified_streak,
                       last_finalized_slot |-> crystallized_state.last_finalized_slot])
        crosslink_records == process_updated_crosslinks(crystallized_state,
                                                        active_state, block)
        pending_attestations ==
            SelectSeq(active_state.pending_attestations,
                      LAMBDA attestation : attestation.slot >= last_state_recalc)
        validators == apply_rewards_and_penalties(crystallized_state,
                                                  active_state, block)
        old == crystallized_state.shard_and_committee_for_slots
        shard_and_committee_for_slots ==
            SubSeq(old, 1, CYCLE_LENGTH) \o SubSeq(old, CYCLE_LENGTH + 1, Len(old))
    IN  IF walked.error # ""
        THEN [error |-> walked.error, crystallized_state |-> crystallized_state,
              active_state |-> active_state]
        ELSE [error |-> "",
              crystallized_state |->
                  [validators |-> validators,
                   last_state_recalc |-> last_state_recalc + CYCLE_LENGTH,
                   shard_and_committee_for_slots |-> shard_and_committee_for_slots,
                   last_justified_slot |-> walked.last_justified_slot,
                   justified_streak |-> walked.justified_streak,
                   last_finalized_slot |-> walked.last_finalized_slot,
                   current_dynasty |-> crystallized_state.current_dynasty,
                   crosslink_records |-> crosslink_records,
                   dynasty_seed |-> crystallized_state.dynasty_seed,
                   dynasty_start |-> crystallized_state.dynasty_start],
              active_state |->
                  ActiveState(pending_attestations, active_state.recent_block_hashes)]

\* The result is [error, crystallized_state, active_state].  Lines 546-562 build
\* the two new states from the fields computed above.
initialize_new_cycle(C, crystallized_state, active_state, block) ==
    IF crystallized_state.validators.is_none
    THEN [error |-> "TypeError", crystallized_state |-> crystallized_state,
          active_state |-> active_state]
    ELSE
    LET last_state_recalc == crystallized_state.last_state_recalc
        walked == WalkCycle(C, last_state_recalc, total_balance(crystallized_state),
                      active_state, block, 0,
                      [error |-> "",
                       last_justified_slot |-> crystallized_state.last_justified_slot,
                       justified_streak |-> crystallized_state.justified_streak,
                       last_finalized_slot |-> crystallized_state.last_finalized_slot])
        crosslink_records == process_updated_crosslinks(crystallized_state,
                                                        active_state, block)
        pending_attestations ==
            SelectSeq(active_state.pending_attestations,
                      LAMBDA attestation : attestation.slot >= last_state_recalc)
        validators == apply_rewards_and_penalties(crystallized_state,
                                                  active_state, block)
        old == crystallized_state.shard_and_committee_for_slots
        shard_and_committee_for_slots ==
            SubSeq(old, CYCLE_LENGTH + 1, Len(old)) \o SubSeq(old, CYCLE_LENGTH + 1, Len(old))
    IN  IF walked.error # ""
        THEN [error |-> walked.error, crystallized_state |-> crystallized_state,
              active_state |-> active_state]
        ELSE [error |-> "",
              crystallized_state |->
                  [validators |-> validators,
                   last_state_recalc |-> last_state_recalc + CYCLE_LENGTH,
                   shard_and_committee_for_slots |-> shard_and_committee_for_slots,
                   last_justified_slot |-> walked.last_justified_slot,
                   justified_streak |-> walked.justified_streak,
                   last_finalized_slot |-> walked.last_finalized_slot,
                   current_dynasty |-> crystallized_state.current_dynasty,
                   crosslink_records |-> crosslink_records,
                   dynasty_seed |-> crystallized_state.dynasty_seed,
                   dynasty_start |-> crystallized_state.dynasty_start],
              active_state |->
                  ActiveState(pending_attestations, active_state.recent_block_hashes)]

\* A variant of ready_for_dynasty_transition that asks a fresh crosslink of
\* every shard, scheduled or not.
ready_for_dynasty_transition_every_shard(crystallized_state, block) ==
    LET sched == crystallized_state.shard_and_committee_for_slots
        required_shards ==
            UNION {{sched[i][c].shard_id : c \in 1..Len(sched[i])} : i \in 1..Len(sched)}
        links == crystallized_state.crosslink_records
    IN  IF block.slot_number - crystallized_state.dynasty_start < MIN_DYNASTY_LENGTH
        THEN "False"
        ELSE IF crystallized_state.last_finalized_slot <= crystallized_state.dynasty_start
        THEN "False"
        ELSE IF links.is_none THEN "TypeError"
        ELSE IF \E shard_id \in 0..(Len(links.items) - 1) :
                   /\ shard_id \in 0..(SHARD_COUNT - 1)
                   /\ links.items[shard_id + 1].slot <= crystallized_state.dynasty_start
        THEN "False"
        ELSE "True"

(***************************************************************************)
(* ready_for_dynasty_transition (base.py, 589-612): "True", "False", or    *)
(* "TypeError" when crosslink_records is None.                             *)
(***************************************************************************)
ready_for_dynasty_transition(crystallized_state, block) ==
    LET sched == crystallized_state.shard_and_committee_for_slots
        required_shards ==
            UNION {{sched[i][c].shard_id : c \in 1..Len(sched[i])} : i \in 1..Len(sched)}
        links == crystallized_state.crosslink_records
    IN  IF block.slot_number - crystallized_state.dynasty_start < MIN_DYNASTY_LENGTH
        THEN "False"
        ELSE IF crystallized_state.last_finalized_slot <= crystallized_state.dynasty_start
        THEN "False"
        ELSE IF links.is_none THEN "TypeError"
        ELSE IF \E shard_id \in 0..(Len(links.items) - 1) :
                   /\ shard_id \in required_shards
                   /\ links.items[shard_id + 1].slot <= crystallized_state.dynasty_start
        THEN "False"
        ELSE "True"

(***************************************************************************)
(* compute_cycle_transitions (base.py, 456-477) and process_block          *)
(* (base.py, 293-324).                                                     *)
(***************************************************************************)
\* compute_dynasty_transition is a stub returning None, so after a dynasty
\* transition the loop test reads last_state_recalc of None: AttributeError.
RECURSIVE compute_cycle_transitions(_, _, _, _)
compute_cycle_transitions(C, crystallized_state, active_state, block) ==
    IF block.slot_number >= crystallized_state.last_state_recalc + CYCLE_LENGTH
    THEN LET r == initialize_new_cycle(C, crystallized_state, active_state, block) IN
         IF r.error # "" THEN r
         ELSE LET ready == ready_for_dynasty_transition(r.crystallized_state, block) IN
              IF ready = "TypeError" THEN [r EXCEPT !.error = "TypeError"]
              ELSE IF ready = "True" THEN [r EXCEPT !.error = "AttributeError"]
              ELSE compute_cycle_transitions(C, r.crystallized_state, r.active_state, block)
    ELSE [error |-> "", crystallized_state |-> crystallized_state,
          active_state |-> active_state]

\* The result is [error, cache, block, crystallized_state, active_state]; when
\* the call raises (error # "") the states of the result are the inputs.
\* lines 318-324: the return, given the outcomes of the two transitions
process_block_return(processing, processed, crystallized_state, active_state, block) ==
    IF processed.error # ""
    THEN [error |-> processed.error, cache |-> processing.cache, block |-> block,
          crystallized_state |-> crystallized_state, active_state |-> active_state]
    ELSE [error |-> "", cache |-> processing.cache, block |-> block,
          crystallized_state |-> processed.crystallized_state,
          active_state |-> processed.active_state]

\* lines 311-316: the cycle transitions on the state the block transition made
process_block_cycle(processing, crystallized_state, active_state, block) ==
    IF processing.error # ""
    THEN [error |-> processing.error, cache |-> processing.cache, block |-> block,
          crystallized_state |-> crystallized_state, active_state |-> active_state]
    ELSE process_block_return(processing,
             compute_cycle_transitions(processing.cache, crystallized_state,
                                       processing.active_state, block),
             crystallized_state, active_state, block)

process_block(C, crystallized_state, active_state, block, chaindb) ==
    process_block_cycle(
        compute_per_block_transtion(C, crystallized_state, active_state, block,
                                    chaindb, CYCLE_LENGTH),
        crystallized_state, active_state, block)

(***************************************************************************)
(* The proposer APIs (base.py, 625-732) and sign of eth/utils/bls.py.      *)
(***************************************************************************)
\* bls.sign(message, privkey, domain), bls.py 133-141, called with the
\* arguments args: all three parameters are required, so a call with
\* other than three arguments raises TypeError before the body runs.  A
\* signature is modelled by what was signed.
sign(args) ==
    IF Len(args) # 3 THEN [error |-> "TypeError", sig |-> NoneValue]
    ELSE [error |-> "",
          sig |-> Some(<<[message |-> args[1], privkey |-> args[2],
                          domain |-> args[3]]>>)]

\* bls.aggregate_sigs, bls.py 156-160: the sum of the signatures, modelled by
\* the signatures summed.
aggregate_sigs(sigs) == sigs

\* get_block_committees_info: the first committee of the block's slot, its
\* size, and the proposer's seat, slot_number % size.
get_block_committees_info(block, crystallized_state, cycle_length) ==
    LET sched == crystallized_state.shard_and_committee_for_slots
        idx == block.slot_number - (crystallized_state.last_state_recalc - cycle_length)
    IN  IF idx < 0 \/ idx >= Len(sched) THEN [error |-> "ValueError"]
        ELSE IF Len(sched[idx + 1]) = 0 \/ Len(sched[idx + 1][1].committee) = 0
        THEN [error |-> "ValueError"]
        ELSE [error |-> "",
              proposer_committee_size |-> Len(sched[idx + 1][1].committee),
              proposer_index_in_committee |->
                  block.slot_number % Len(sched[idx + 1][1].committee)]

get_empty_bitfield(bit_count) == Repeat(FALSE, bit_count)
set_voted(bitfield, index) == [bitfield EXCEPT ![index + 1] = TRUE]

\* chaindb.get_canonical_block_hash_by_slot -> [error, hash]
get_canonical_block_hash_by_slot(chaindb, slot) ==
    IF \E b \in chaindb : b.slot_number = slot
    THEN [error |-> "", hash |-> (CHOOSE b \in chaindb : b.slot_number = slot).hash]
    ELSE [error |-> "BlockNotFound", hash |-> ZERO_HASH32]

\* get_hashes_to_sign: the cycle-length prefix of the ring and the block's hash
get_hashes_to_sign(recent_block_hashes, block, cycle_length) ==
    Append(SubSeq(recent_block_hashes, 1, Min(cycle_length, Len(recent_block_hashes))),
           block.hash)

create_signing_message(slot, parent_hashes, shard_id, shard_block_hash, justified_slot) ==
    [slot |-> slot, parent_hashes |-> parent_hashes, shard_id |-> shard_id,
     shard_block_hash |-> shard_block_hash, justified_slot |-> justified_slot]

BlockProposal(block, shard_id, shard_block_hash) ==
    [block |-> block, shard_id |-> shard_id, shard_block_hash |-> shard_block_hash]

\* base.py, 714-732: the signature over the message and the record, given the
\* bitfield and the justified block hash.  The call of line 716 passes the
\* message and the private key.
attest_proposed_block_sign(block_proposal, attester_bitfield, justified_slot, justified_block_hash, message, private_key) ==
    LET signed == sign(<<message, private_key>>) IN
    IF signed.error # "" THEN [error |-> signed.error, attestation |-> NoneValue]
    ELSE [error |-> "",
          attestation |-> Some(<<
              [slot |-> block_proposal.block.slot_number,
               shard_id |-> block_proposal.shard_id,
               oblique_parent_hashes |-> << >>,
               shard_block_hash |-> block_proposal.shard_block_hash,
               attester_bitfield |-> attester_bitfield,
               justified_slot |-> justified_slot,
               justified_block_hash |-> justified_block_hash,
               aggregate_sig |-> aggregate_sigs(<<signed.sig>>)]>>)]

\* base.py, 673-732 -> [error, attestation]
attest_proposed_block(post_crystallized_state, post_active_state, pre_active_state, block_proposal, chaindb, cycle_length, private_key) ==
    LET block_committees_info ==
            get_block_committees_info(block_proposal.block, post_crystallized_state,
                                      cycle_length)
        justified_slot == post_crystallized_state.last_justified_slot
        justified_block_hash == get_canonical_block_hash_by_slot(chaindb, justified_slot)
    IN  IF block_committees_info.error # ""
        THEN [error |-> block_committees_info.error, attestation |-> NoneValue]
        ELSE IF justified_block_hash.error # ""
        THEN [error |-> justified_block_hash.error, attestation |-> NoneValue]
        ELSE attest_proposed_block_sign(
                 block_proposal,
                 set_voted(get_empty_bitfield(block_committees_info.proposer_committee_size),
                           block_committees_info.proposer_index_in_committee),
                 justified_slot, justified_block_hash.hash,
                 create_signing_message(
                     block_proposal.block.slot_number,
                     get_hashes_to_sign(post_active_state.recent_block_hashes,
                                        block_proposal.block, cycle_length),
                     block_proposal.shard_id, block_proposal.shard_block_hash,
                     justified_slot),
                 private_key)

\* base.py, 638-665, given the outcome of process_block -> [error, processed,
\* cache, block, crystallized_state, active_state, attestation]; processed
\* says whether process_block returned.
propose_block_attest(processed, active_state, block_proposal, chaindb, private_key, post_block) ==
    LET attested == attest_proposed_block(
                        processed.crystallized_state, processed.active_state,
                        active_state,
                        BlockProposal(post_block, block_proposal.shard_id,
                                      block_proposal.shard_block_hash),
                        chaindb, CYCLE_LENGTH, private_key)
    IN  [error |-> attested.error, processed |-> TRUE,
         cache |-> processed.cache, block |-> post_block,
         crystallized_state |-> processed.crystallized_state,
         active_state |-> processed.active_state,
         attestation |-> attested.attestation]

\* base.py, 625-665
propose_block(C, crystallized_state, active_state, block_proposal, chaindb, private_key) ==
    LET processed == process_block(C, crystallized_state, active_state,
                                   block_proposal.block, chaindb)
    IN  IF processed.error # ""
        THEN [error |-> processed.error, processed |-> FALSE,
              cache |-> processed.cache, block |-> block_proposal.block,
              crystallized_state |-> crystallized_state,
              active_state |-> active_state, attestation |-> NoneValue]
        ELSE propose_block_attest(
                 processed, active_state, block_proposal, chaindb, private_key,
                 [processed.block EXCEPT
                     !.crystallized_state_root = StateRoot(processed.crystallized_state),
                     !.active_state_root = StateRoot(processed.active_state)])

(***************************************************************************)
(* get_prev_blocks (base.py, 126-156): the blocks from last_block_hash     *)
(* back along the parent hashes.  The result is [error, blocks]; the       *)
(* lookup of last_block_hash is outside the try and raises BlockNotFound.  *)
(***************************************************************************)
\* lines 146-156: the loop, with the blocks yielded so far
RECURSIVE PrevBlocksFrom(_, _, _, _, _)
PrevBlocksFrom(block, db, search_depth, min_slot_number, yielded) ==
    IF search_depth = 0 THEN yielded
    ELSE IF ~(\E b \in db : b.hash = block.parent_hash)
    THEN Append(yielded, block)
    ELSE LET next_block == CHOOSE b \in db : b.hash = block.parent_hash IN
         IF next_block.slot_number < min_slot_number THEN Append(yielded, block)
         ELSE PrevBlocksFrom(next_block, db, search_depth - 1, min_slot_number,
                             Append(yielded, block))

get_prev_blocks(last_block_hash, db, max_search_depth, min_slot_number) ==
    IF last_block_hash = GENESIS_PARENT_HASH THEN [error |-> "", blocks |-> << >>]
    ELSE IF ~(\E b \in db : b.hash = last_block_hash)
    THEN [error |-> "BlockNotFound", blocks |-> << >>]
    ELSE [error |-> "",
          blocks |-> PrevBlocksFrom(CHOOSE b \in db : b.hash = last_block_hash, db,
                                    max_search_depth, min_slot_number, << >>)]

(***************************************************************************)
(* The state machine object (base.py, 82-101, 158-231) and import_block    *)
(* (base.py, 261-288).                                                     *)
(***************************************************************************)
\* self.parent_block
parent_block(machine, chaindb) ==
    CHOOSE p \in chaindb : p.hash = machine.block.parent_hash

\* The property crystallized_state: _crytallized_state, read from the chain
\* database by the parent block's root while it is None.
crystallized_state(machine, chaindb) ==
    IF machine._crytallized_state.is_none
    THEN parent_block(machine, chaindb).crystallized_state_root
    ELSE machine._crytallized_state.items[1]

\* The property active_state, the backed-up state matching the parent block.
active_state(machine, chaindb) ==
    IF machine._active_state.is_none
    THEN parent_block(machine, chaindb).active_state_root
    ELSE machine._active_state.items[1]

\* The properties read by a caller fill the two fields.
LoadStates(machine, chaindb) ==
    [machine EXCEPT
        !._crytallized_state = Some(<<crystallized_state(machine, chaindb)>>),
        !._active_state = Some(<<active_state(machine, chaindb)>>)]

\* A faulty variant of import_block_validate: the new block and states are
\* assigned before the state roots are validated.
import_block_validate_assign_first(r, machine, block, chaindb) ==
    IF r.error # ""
    THEN [error |-> r.error, cache |-> r.cache, machine |-> LoadStates(machine, chaindb)]
    ELSE [error |-> IF validate_state_roots(StateRoot(r.crystallized_state),
                                            StateRoot(r.active_state), block)
                    THEN "" ELSE "ValidationError",
          cache |-> r.cache,
          machine |-> [block |-> r.block,
                       _crytallized_state |-> Some(<<r.crystallized_state>>),
                       _active_state |-> Some(<<r.active_state>>)]]

\* The result is [error, cache, machine].
\* lines 276-288: the root validation and the assignment of the new states
import_block_validate(r, machine, block, chaindb) ==
    IF r.error # ""
    THEN [error |-> r.error, cache |-> r.cache, machine |-> LoadStates(machine, chaindb)]
    ELSE IF ~validate_state_roots(StateRoot(r.crystallized_state),
                                  StateRoot(r.active_state), block)
    THEN [error |-> "ValidationError", cache |-> r.cache,
          machine |-> LoadStates(machine, chaindb)]
    ELSE [error |-> "", cache |-> r.cache,
          machine |-> [block |-> r.block,
                       _crytallized_state |-> Some(<<r.crystallized_state>>),
                       _active_state |-> Some(<<r.active_state>>)]]

import_block(C, machine, block, chaindb) ==
    IF machine.block.hash \notin DOMAIN C.dict
    THEN [error |-> "KeyError", cache |-> C, machine |-> machine]
    ELSE import_block_validate(
             process_block(CacheSetAlias(C, block.hash, machine.block.hash),
                           crystallized_state(machine, chaindb),
                           active_state(machine, chaindb), block, chaindb),
             machine, block, chaindb)

(***************************************************************************)
(* eth/beacon/utils/random.py: shuffle and split.                          *)
(* A seed is modelled by the samples its hash chain yields: the 3-byte     *)
(* windows of blake(seed), blake(blake(seed)), ... read as big-endian      *)
(* integers, in order.  A source is a seed with the number of hashes       *)
(* applied to it.  The chain of a seed is followed for as many hashes as   *)
(* the seed holds samples; a run that needs more is cut (exhausted).       *)
(***************************************************************************)
RAND_BYTES == 3
RAND_MAX == 16777215

\* The windows of one digest: range(0, 32 - (32 % RAND_BYTES), RAND_BYTES),
\* for a digest of HashBytes bytes.
WindowsEnd == HashBytes - (HashBytes % RAND_BYTES)
WindowsPerHash == WindowsEnd \div RAND_BYTES

blake(source) == [source EXCEPT !.round = @ + 1]

\* The place of the window at position in the samples of the seed.
SampleIndex(source, position) ==
    (source.round - 1) * WindowsPerHash + (position \div RAND_BYTES) + 1

\* int.from_bytes(source[position:position + RAND_BYTES], 'big')
sample_from_source(source, position) ==
    source.seed[SampleIndex(source, position)]

\* lines 74-77: the swap of two places of output, counted from 0
Swap(output, i, j) == [output EXCEPT ![i + 1] = output[j + 1], ![j + 1] = output[i + 1]]

\* A variant of UseSample that rejects only the samples from
\* 2^24 - (2^24 % remaining) on.
UseSample_full_range(acc, sample, remaining) ==
    IF sample < (RAND_MAX + 1) - ((RAND_MAX + 1) % remaining)
    THEN [acc EXCEPT !.output = Swap(@, acc.index, (sample % remaining) + acc.index),
                     !.index = @ + 1]
    ELSE acc

\* lines 70-81: the sample is used or rejected
UseSample(acc, sample, remaining) ==
    IF sample < RAND_MAX - (RAND_MAX % remaining)
    THEN [acc EXCEPT !.output = Swap(@, acc.index, (sample % remaining) + acc.index),
                     !.index = @ + 1]
    ELSE acc

\* lines 53-81: the windows of source from position on;
\* acc = [output, index, exhausted]
RECURSIVE ShuffleWindows(_, _, _, _)
ShuffleWindows(acc, source, position, values_count) ==
    IF position >= WindowsEnd \/ values_count - acc.index = 1 THEN acc
    ELSE ShuffleWindows(
             UseSample(acc, sample_from_source(source, position),
                       values_count - acc.index),
             source, position + RAND_BYTES, values_count)

\* lines 48-81: the hashes of source until the last index is reached
RECURSIVE ShuffleRounds(_, _, _)
ShuffleRounds(acc, source, values_count) ==
    IF acc.index >= values_count - 1 THEN acc
    ELSE IF (source.round + 1) * WindowsPerHash > Len(source.seed)
    THEN [acc EXCEPT !.exhausted = TRUE]
    ELSE ShuffleRounds(ShuffleWindows(acc, blake(source), 0, values_count),
                       blake(source), values_count)

\* seq[a:b] for 0 <= a <= b: the items from place a up to place b - 1,
\* counted from 0, cut at the end of seq
Slice(seq, a, b) == SubSeq(seq, Min(a, Len(seq)) + 1, Min(b, Len(seq)))

\* A faulty variant of split: every piece has list_length // split_count
\* items.
split_even(seq, split_count) ==
    [i \in 1..split_count |->
        Slice(seq, (Len(seq) \div split_count) * (i - 1),
                   (Len(seq) \div split_count) * i)]

\* split(seq, split_count), lines 86-96; piece i of range(split_count) is
\* item i + 1 of the tuple
split(seq, split_count) ==
    [i \in 1..split_count |->
        Slice(seq, (Len(seq) * (i - 1)) \div split_count,
                   (Len(seq) * i) \div split_count)]

\* A faulty variant of shuffle: the swaps are made in the caller's sequence.
shuffle_in_place(values, seed) ==
    LET done == ShuffleRounds([output |-> values, index |-> 0, exhausted |-> FALSE],
                              [seed |-> seed, round |-> 0], Len(values))
    IN  [error |-> "", exhausted |-> done.exhausted, index |-> done.index,
         output |-> done.output, values |-> done.output]

\* shuffle(values, seed) -> [error, exhausted, index, output, values]: the tuple
\* returned, and the caller's sequence after the call.
shuffle(values, seed) ==
    IF Len(values) > RAND_MAX
    THEN [error |-> "ValueError", exhausted |-> FALSE, index |-> 0,
          output |-> << >>, values |-> values]
    ELSE LET done == ShuffleRounds(
                         [output |-> values, index |-> 0, exhausted |-> FALSE],
                         [seed |-> seed, round |-> 0], Len(values))
         IN  [error |-> "", exhausted |-> done.exhausted, index |-> done.index,
              output |-> done.output, values |-> values]

(***************************************************************************)
(* BeaconState and the validator lifecycle                                 *)
(* (eth/beacon/validator_status_helpers.py, on_startup.py).                *)
(* Balances are counted in units of 10^9 gwei.  A hash chain is the        *)
(* sequence of the records hashed into it, ZERO_HASH32 the empty one.      *)
(* A call's result is [error, state]; when it raises, state is the input.  *)
(***************************************************************************)
\* ValidatorStatusFlags
INITIATED_EXIT == 1
WITHDRAWABLE == 2

\* flags | flag, for a flag of one bit
BitOr(flags, flag) == IF (flags \div flag) % 2 = 1 THEN flags ELSE flags + flag

\* ValidatorRecord.get_pending_validator
get_pending_validator(pubkey, far_future_slot) ==
    [pubkey |-> pubkey, randao_layers |-> 0,
     activation_slot |-> far_future_slot, exit_slot |-> far_future_slot,
     withdrawal_slot |-> far_future_slot, penalized_slot |-> far_future_slot,
     exit_count |-> 0, status_flags |-> 0]

\* ValidatorRecord.is_active
is_active(validator, slot) ==
    validator.activation_slot <= slot /\ slot < validator.exit_slot

update_tuple_item(tuple_data, index, new_value) ==
    [tuple_data EXCEPT ![index + 1] = new_value]

\* BeaconState.update_validator_registry / update_validator_balance /
\* update_validator: a copy of the state with the item at the index replaced.
update_validator_registry(state, validator_index, validator) ==
    [state EXCEPT !.validator_registry =
        update_tuple_item(state.validator_registry, validator_index, validator)]

update_validator_balance(state, validator_index, balance) ==
    [state EXCEPT !.validator_balances =
        update_tuple_item(state.validator_balances, validator_index, balance)]

update_validator(state, validator_index, validator, balance) ==
    update_validator_balance(
        update_validator_registry(state, validator_index, validator),
        validator_index, balance)

\* min(balance, max_deposit * denoms.gwei)
get_effective_balance(validator_balances, index, max_deposit) ==
    Min(validator_balances[index + 1], max_deposit)

\* The proposer of the slot: the member slot % len of the first committee of
\* the slot, the committee taken to be the whole registry in index order.
get_beacon_proposer_index(state, slot, epoch_length) ==
    slot % Len(state.validator_registry)

\* ValidatorRegistryDeltaBlock(...).root on top of the chain tip
DeltaRoot(latest_registry_delta_root, validator_index, pubkey, slot, flag) ==
    Append(latest_registry_delta_root,
           [validator_index |-> validator_index, pubkey |-> pubkey,
            slot |-> slot, flag |-> flag])

\* A faulty variant of activate_validator: the genesis flag is not looked at,
\* every activation is delayed.
activate_validator_delayed(state, index, genesis, genesis_slot, entry_exit_delay) ==
    LET validator == [state.validator_registry[index + 1] EXCEPT
                         !.activation_slot = state.slot + entry_exit_delay]
    IN  [update_validator_registry(state, index, validator) EXCEPT
            !.validator_registry_delta_chain_tip =
                DeltaRoot(state.validator_registry_delta_chain_tip, index,
                          validator.pubkey, validator.activation_slot, "ACTIVATION")]

activate_validator(state, index, genesis, genesis_slot, entry_exit_delay) ==
    LET validator == [state.validator_registry[index + 1] EXCEPT
                         !.activation_slot = IF genesis THEN genesis_slot
                                             ELSE state.slot + entry_exit_delay]
    IN  [update_validator_registry(state, index, validator) EXCEPT
            !.validator_registry_delta_chain_tip =
                DeltaRoot(state.validator_registry_delta_chain_tip, index,
                          validator.pubkey, validator.activation_slot, "ACTIVATION")]

initiate_validator_exit(state, index) ==
    update_validator_registry(state, index,
        [state.validator_registry[index + 1] EXCEPT
            !.status_flags = BitOr(@, INITIATED_EXIT)])

\* A faulty variant of exit_validator: there is no early return, a validator
\* that has exited exits again.
exit_validator_again(state, index, entry_exit_delay) ==
    LET validator_registry_exit_count == state.validator_registry_exit_count + 1
        validator == [state.validator_registry[index + 1] EXCEPT
                         !.exit_slot = state.slot + entry_exit_delay,
                         !.exit_count = validator_registry_exit_count]
    IN  [update_validator_registry(state, index, validator) EXCEPT
            !.validator_registry_exit_count = validator_registry_exit_count,
            !.validator_registry_delta_chain_tip =
                DeltaRoot(state.validator_registry_delta_chain_tip, index,
                          validator.pubkey, validator.exit_slot, "EXIT")]

\* A faulty variant of exit_validator: the delta block is stamped with the
\* slot of the state instead of the validator's exit slot.
exit_validator_stamp_now(state, index, entry_exit_delay) ==
    IF state.validator_registry[index + 1].exit_slot <= state.slot + entry_exit_delay
    THEN state
    ELSE
    LET validator_registry_exit_count == state.validator_registry_exit_count + 1
        validator == [state.validator_registry[index + 1] EXCEPT
                         !.exit_slot = state.slot + entry_exit_delay,
                         !.exit_count = validator_registry_exit_count]
    IN  [update_validator_registry(state, index, validator) EXCEPT
            !.validator_registry_exit_count = validator_registry_exit_count,
            !.validator_registry_delta_chain_tip =
                DeltaRoot(state.validator_registry_delta_chain_tip, index,
                          validator.pubkey, state.slot, "EXIT")]

exit_validator(state, index, entry_exit_delay) ==
    IF state.validator_registry[index + 1].exit_slot <= state.slot + entry_exit_delay
    THEN state
    ELSE
    LET validator_registry_exit_count == state.validator_registry_exit_count + 1
        validator == [state.validator_registry[index + 1] EXCEPT
                         !.exit_slot = state.slot + entry_exit_delay,
                         !.exit_count = validator_registry_exit_count]
    IN  [update_validator_registry(state, index, validator) EXCEPT
            !.validator_registry_exit_count = validator_registry_exit_count,
            !.validator_registry_delta_chain_tip =
                DeltaRoot(state.validator_registry_delta_chain_tip, index,
                          validator.pubkey, validator.exit_slot, "EXIT")]

prepare_validator_for_withdrawal(state, index) ==
    update_validator_registry(state, index,
        [state.validator_registry[index + 1] EXCEPT
            !.status_flags = BitOr(@, WITHDRAWABLE)])

\* An item of latest_penalized_exit_balances: a number, or the 1-tuple that
\* line 161-164 builds (the expression ends with a comma).
Number(value) == [is_tuple |-> FALSE, value |-> value]
Tuple1(value) == [is_tuple |-> TRUE, value |-> value]

\* A faulty variant of settle_penality_to_validator_and_whistleblower: the
\* penalized validator's new balance is appended to validator_balances
\* instead of replacing the validator's item.
settle_penality_appending(state, validator_index, latest_penalized_exit_length, whistleblower_reward_quotient, epoch_length, max_deposit) ==
    LET last_penalized_epoch == (state.slot \div epoch_length) % latest_penalized_exit_length
        effective_balance == get_effective_balance(state.validator_balances,
                                                   validator_index, max_deposit)
        old == state.latest_penalized_exit_balances[last_penalized_epoch + 1]
        whistleblower_reward == effective_balance \div whistleblower_reward_quotient
        whistleblower_index == get_beacon_proposer_index(state, state.slot, epoch_length)
        state1 == [state EXCEPT !.latest_penalized_exit_balances =
                      update_tuple_item(@, last_penalized_epoch,
                                        Tuple1(old.value + effective_balance))]
        state2 == update_validator_balance(state1, whistleblower_index,
                      state1.validator_balances[whistleblower_index + 1]
                          - whistleblower_reward)
        validator == [state2.validator_registry[validator_index + 1] EXCEPT
                         !.penalized_slot = state2.slot]
    IN  IF old.is_tuple THEN [error |-> "TypeError", state |-> state]
        ELSE [error |-> "",
              state |-> [update_validator_registry(state2, validator_index, validator)
                            EXCEPT !.validator_balances =
                                Append(@, state2.validator_balances[validator_index + 1]
                                              - whistleblower_reward)]]

\* A faulty variant of settle_penality_to_validator_and_whistleblower: the
\* penalized balance is appended to latest_penalized_exit_balances instead of
\* replacing the item of the epoch.
settle_penality_growing_ring(state, validator_index, latest_penalized_exit_length, whistleblower_reward_quotient, epoch_length, max_deposit) ==
    LET last_penalized_epoch == (state.slot \div epoch_length) % latest_penalized_exit_length
        effective_balance == get_effective_balance(state.validator_balances,
                                                   validator_index, max_deposit)
        old == state.latest_penalized_exit_balances[last_penalized_epoch + 1]
        whistleblower_reward == effective_balance \div whistleblower_reward_quotient
        whistleblower_index == get_beacon_proposer_index(state, state.slot, epoch_length)
        state1 == [state EXCEPT !.latest_penalized_exit_balances =
                      Append(@, Tuple1(old.value + effective_balance))]
        state2 == update_validator_balance(state1, whistleblower_index,
                      state1.validator_balances[whistleblower_index + 1]
                          - whistleblower_reward)
        validator == [state2.validator_registry[validator_index + 1] EXCEPT
                         !.penalized_slot = state2.slot]
    IN  IF old.is_tuple THEN [error |-> "TypeError", state |-> state]
        ELSE [error |-> "",
              state |-> update_validator(state2, validator_index, validator,
                            state2.validator_balances[validator_index + 1]
                                - whistleblower_reward)]

\* _settle_penality_to_validator_and_whistleblower.  Adding the effective
\* balance to an item that is already a tuple raises TypeError.
settle_penality_to_validator_and_whistleblower(state, validator_index, latest_penalized_exit_length, whistleblower_reward_quotient, epoch_length, max_deposit) ==
    LET last_penalized_epoch == (state.slot \div epoch_length) % latest_penalized_exit_length
        effective_balance == get_effective_balance(state.validator_balances,
                                                   validator_index, max_deposit)
        old == state.latest_penalized_exit_balances[last_penalized_epoch + 1]
        whistleblower_reward == effective_balance \div whistleblower_reward_quotient
        whistleblower_index == get_beacon_proposer_index(state, state.slot, epoch_length)
        state1 == [state EXCEPT !.latest_penalized_exit_balances =
                      update_tuple_item(@, last_penalized_epoch,
                                        Tuple1(old.value + effective_balance))]
        state2 == update_validator_balance(state1, whistleblower_index,
                      state1.validator_balances[whistleblower_index + 1]
                          - whistleblower_reward)
        validator == [state2.validator_registry[validator_index + 1] EXCEPT
                         !.penalized_slot = state2.slot]
    IN  IF old.is_tuple THEN [error |-> "TypeError", state |-> state]
        ELSE [error |-> "",
              state |-> update_validator(state2, validator_index, validator,
                            state2.validator_balances[validator_index + 1]
                                - whistleblower_reward)]

\* A faulty variant of penalize_validator: the settlement is made without
\* the exit.
penalize_validator_no_exit(state, index, epoch_length, latest_penalized_exit_length, whistleblower_reward_quotient, entry_exit_delay, max_deposit) ==
    LET settled == settle_penality_to_validator_and_whistleblower(
                       state, index,
                       latest_penalized_exit_length, whistleblower_reward_quotient,
                       epoch_length, max_deposit)
    IN  IF settled.error # "" THEN [error |-> settled.error, state |-> state]
        ELSE settled

penalize_validator(state, index, epoch_length, latest_penalized_exit_length, whistleblower_reward_quotient, entry_exit_delay, max_deposit) ==
    LET settled == settle_penality_to_validator_and_whistleblower(
                       exit_validator(state, index, entry_exit_delay), index,
                       latest_penalized_exit_length, whistleblower_reward_quotient,
                       epoch_length, max_deposit)
    IN  IF settled.error # "" THEN [error |-> settled.error, state |-> state]
        ELSE settled

\* A deposit: the public key, the amount, and whether the proof of possession
\* verifies against the key.
Deposit(pubkey, amount, proof_ok) ==
    [pubkey |-> pubkey, amount |-> amount, proof_ok |-> proof_ok]

\* process_deposit: the proof of possession is verified; the amount is added
\* to the balance of the validator with the public key, or a pending
\* validator and its balance are appended.
process_deposit(state, deposit, far_future_slot) ==
    LET known == {i \in 1..Len(state.validator_registry) :
                     state.validator_registry[i].pubkey = deposit.pubkey}
    IN  IF ~deposit.proof_ok THEN [error |-> "ValidationError", state |-> state]
        ELSE IF known = {}
        THEN [error |-> "",
              state |-> [state EXCEPT
                  !.validator_registry =
                      Append(@, get_pending_validator(deposit.pubkey, far_future_slot)),
                  !.validator_balances = Append(@, deposit.amount)]]
        ELSE LET i == CHOOSE i \in known : TRUE IN
             [error |-> "",
              state |-> update_validator_balance(state, i - 1,
                            state.validator_balances[i] + deposit.amount)]

\* A variant of EmptyBeaconState with latest_vdf_outputs as long as
\* latest_randao_mixes.
EmptyBeaconState_vdf_full(genesis_slot, latest_block_roots_length, epoch_length, latest_penalized_exit_length, latest_randao_mixes_length) ==
    [slot |-> genesis_slot,
     validator_registry |-> << >>,
     validator_balances |-> << >>,
     validator_registry_exit_count |-> 0,
     validator_registry_delta_chain_tip |-> << >>,
     latest_randao_mixes |-> Repeat(ZERO_HASH32, latest_randao_mixes_length),
     latest_vdf_outputs |-> Repeat(ZERO_HASH32, latest_randao_mixes_length),
     shard_committees_at_slots |-> << >>,
     previous_justified_slot |-> genesis_slot,
     justified_slot |-> genesis_slot,
     finalized_slot |-> genesis_slot,
     latest_block_roots |-> Repeat(ZERO_HASH32, latest_block_roots_length),
     latest_penalized_exit_balances |-> Repeat(Number(0), latest_penalized_exit_length)]

\* on_startup.py, 84-132: the state before the initial deposits
EmptyBeaconState(genesis_slot, latest_block_roots_length, epoch_length, latest_penalized_exit_length, latest_randao_mixes_length) ==
    [slot |-> genesis_slot,
     validator_registry |-> << >>,
     validator_balances |-> << >>,
     validator_registry_exit_count |-> 0,
     validator_registry_delta_chain_tip |-> << >>,
     latest_randao_mixes |-> Repeat(ZERO_HASH32, latest_randao_mixes_length),
     latest_vdf_outputs |->
         Repeat(ZERO_HASH32, latest_randao_mixes_length \div epoch_length),
     shard_committees_at_slots |-> << >>,
     previous_justified_slot |-> genesis_slot,
     justified_slot |-> genesis_slot,
     finalized_slot |-> genesis_slot,
     latest_block_roots |-> Repeat(ZERO_HASH32, latest_block_roots_length),
     latest_penalized_exit_balances |-> Repeat(Number(0), latest_penalized_exit_length)]

\* A faulty variant of ProcessInitialDeposits: the deposits are taken from the
\* end of the list.
RECURSIVE ProcessInitialDeposits_reversed(_, _, _, _)
ProcessInitialDeposits_reversed(res, initial_validator_deposits, far_future_slot, n) ==
    IF res.error # "" \/ n > Len(initial_validator_deposits) THEN res
    ELSE ProcessInitialDeposits_reversed(
             process_deposit(res.state,
                 initial_validator_deposits[Len(initial_validator_deposits) + 1 - n],
                 far_future_slot),
             initial_validator_deposits, far_future_slot, n + 1)

\* on_startup.py, 135-145: the initial deposits from position n on
RECURSIVE ProcessInitialDeposits(_, _, _, _)
ProcessInitialDeposits(res, initial_validator_deposits, far_future_slot, n) ==
    IF res.error # "" \/ n > Len(initial_validator_deposits) THEN res
    ELSE ProcessInitialDeposits(
             process_deposit(res.state, initial_validator_deposits[n], far_future_slot),
             initial_validator_deposits, far_future_slot, n + 1)

\* A faulty variant of ActivateInitialValidators: a validator is activated
\* when its balance, not its effective balance, equals max_deposit.
RECURSIVE ActivateInitialValidators_exact(_, _, _, _, _)
ActivateInitialValidators_exact(state, validator_index, genesis_slot, max_deposit, entry_exit_delay) ==
    IF validator_index >= Len(state.validator_registry) THEN state
    ELSE ActivateInitialValidators_exact(
             IF state.validator_balances[validator_index + 1] = max_deposit
             THEN activate_validator(state, validator_index, TRUE, genesis_slot,
                                     entry_exit_delay)
             ELSE state,
             validator_index + 1, genesis_slot, max_deposit, entry_exit_delay)

\* on_startup.py, 147-161: the validators from index validator_index on
RECURSIVE ActivateInitialValidators(_, _, _, _, _)
ActivateInitialValidators(state, validator_index, genesis_slot, max_deposit, entry_exit_delay) ==
    IF validator_index >= Len(state.validator_registry) THEN state
    ELSE ActivateInitialValidators(
             IF get_effective_balance(state.validator_balances, validator_index,
                                      max_deposit) = max_deposit
             THEN activate_validator(state, validator_index, TRUE, genesis_slot,
                                     entry_exit_delay)
             ELSE state,
             validator_index + 1, genesis_slot, max_deposit, entry_exit_delay)

\* The indices, counted from 0, of the validators active at the slot, in
\* increasing order.
get_active_validator_indices(validators, slot) ==
    SelectSeq([i \in 1..Len(validators) |-> i - 1],
              LAMBDA index : is_active(validators[index + 1], slot))

clamp(inclusive_lower_bound, inclusive_upper_bound, value) ==
    IF value <= inclusive_lower_bound THEN inclusive_lower_bound
    ELSE IF value >= inclusive_upper_bound THEN inclusive_upper_bound
    ELSE value

\* The committees of slot group number slot_in_epoch (from 0): the group split
\* into committees_per_slot committees, with the shards that follow
\* crosslinking_start_shard.
ShardCommitteesOfSlot(group, slot_in_epoch, committees_per_slot, crosslinking_start_shard, shard_count) ==
    [c \in 1..committees_per_slot |->
        [shard |-> (crosslinking_start_shard + slot_in_epoch * committees_per_slot
                       + (c - 1)) % shard_count,
         committee |-> split(group, committees_per_slot)[c]]]

\* The shuffling of the shuffled indices: one entry per slot of the epoch.
ShufflingOf(shuffled, active_count, crosslinking_start_shard, epoch_length, target_committee_size, shard_count) ==
    [j \in 1..epoch_length |->
        ShardCommitteesOfSlot(
            split(shuffled, epoch_length)[j], j - 1,
            clamp(1, shard_count \div epoch_length,
                  (active_count + epoch_length * target_committee_size - 1)
                      \div (epoch_length * target_committee_size)),
            crosslinking_start_shard, shard_count)]

\* get_shuffling -> [error, shuffling]
get_shuffling(seed, validators, crosslinking_start_shard, slot, epoch_length, target_committee_size, shard_count) ==
    LET shuffled == shuffle(get_active_validator_indices(validators, slot), seed) IN
    IF shuffled.error # "" \/ shuffled.exhausted
    THEN [error |-> IF shuffled.exhausted THEN "exhausted" ELSE shuffled.error,
          shuffling |-> << >>]
    ELSE [error |-> "",
          shuffling |-> ShufflingOf(shuffled.output, Len(shuffled.output),
                            crosslinking_start_shard, epoch_length,
                            target_committee_size, shard_count)]

\* A faulty variant of SetInitialShuffling: the shuffling is stored once, not
\* concatenated with itself.
SetInitialShuffling_once(state, initial_shuffling) ==
    IF initial_shuffling.error # ""
    THEN [error |-> initial_shuffling.error, state |-> state]
    ELSE [error |-> "",
          state |-> [state EXCEPT !.shard_committees_at_slots =
                        initial_shuffling.shuffling]]

\* on_startup.py, 163-177: the initial committee shuffling
SetInitialShuffling(state, initial_shuffling) ==
    IF initial_shuffling.error # ""
    THEN [error |-> initial_shuffling.error, state |-> state]
    ELSE [error |-> "",
          state |-> [state EXCEPT !.shard_committees_at_slots =
                        initial_shuffling.shuffling \o initial_shuffling.shuffling]]

\* on_startup.py, 163-177, on the state with the validators activated
ActivateAndShuffle(state, zero_seed, genesis_slot, shard_count, epoch_length, target_committee_size) ==
    SetInitialShuffling(
        state,
        get_shuffling(zero_seed, state.validator_registry, 0, genesis_slot,
                      epoch_length, target_committee_size, shard_count))

\* get_initial_beacon_state -> [error, state].  zero_seed stands for
\* ZERO_HASH32 as a seed: the samples of its hash chain.
get_initial_beacon_state(initial_validator_deposits, zero_seed, genesis_slot, far_future_slot, shard_count, latest_block_roots_length, epoch_length, target_committee_size, max_deposit, latest_penalized_exit_length, latest_randao_mixes_length, entry_exit_delay) ==
    LET deposited == ProcessInitialDeposits(
                         [error |-> "",
                          state |-> EmptyBeaconState(genesis_slot,
                                        latest_block_roots_length, epoch_length,
                                        latest_penalized_exit_length,
                                        latest_randao_mixes_length)],
                         initial_validator_deposits, far_future_slot, 1)
    IN  IF deposited.error # "" THEN deposited
        ELSE ActivateAndShuffle(
                 ActivateInitialValidators(deposited.state, 0, genesis_slot,
                                           max_deposit, entry_exit_delay),
                 zero_seed, genesis_slot, shard_count, epoch_length,
                 target_committee_size)

(***************************************************************************)
(* The bounded inputs of the state machine: the state the chain database   *)
(* holds for the head block, and the blocks offered to the machine.        *)
(***************************************************************************)
Validators == <<[balance |-> 1], [balance |-> 2]>>
Committees == Repeat(<<[shard_id |-> 0, committee |-> <<0, 1>>]>>, 2 * CYCLE_LENGTH)
Crosslinks == <<[slot |-> 0, hash |-> ZERO_HASH32]>>

\* get_genesis_crystallized_state (genesis_helpers.py, 36-69)
GenesisCrystallized ==
    [validators |-> Some(Validators), last_state_recalc |-> 0,
     shard_and_committee_for_slots |-> Committees,
     last_justified_slot |-> 0, justified_streak |-> 0, last_finalized_slot |-> 0,
     current_dynasty |-> 1, crosslink_records |-> Some(Crosslinks),
     dynasty_seed |-> ZERO_HASH32, dynasty_start |-> 0]

\* A state three cycles after genesis whose last CYCLE_LENGTH slots were justified.
LateCrystallized ==
    [GenesisCrystallized EXCEPT
        !.last_state_recalc = 3 * CYCLE_LENGTH,
        !.last_justified_slot = 2 * CYCLE_LENGTH - 1,
        !.justified_streak = CYCLE_LENGTH,
        !.dynasty_start = 3 * CYCLE_LENGTH]

PriorCrystallized == {GenesisCrystallized, LateCrystallized}

\* get_genesis_active_state (genesis_helpers.py, 27-33)
GenesisActive == ActiveState(<< >>, Repeat(ZERO_HASH32, 2 * CYCLE_LENGTH))

\* Rings that already hold the hash of a block offered later.
PriorActive ==
    {GenesisActive,
     ActiveState(<< >>, [i \in 1..(2 * CYCLE_LENGTH) |-> IF i % 2 = 1 THEN "B3" ELSE "G"]),
     ActiveState(<< >>, [i \in 1..(2 * CYCLE_LENGTH) |-> IF i % 2 = 1 THEN "B8" ELSE "G"])}

\* The head block of the chain database, holding the roots of the prior states.
HeadBlock(cs0, as0) ==
    Block("G", IF cs0.last_state_recalc = 0 THEN GENESIS_PARENT_HASH ELSE "F",
          cs0.last_state_recalc, << >>, TRUE, <<cs0, as0>>)

HeadOf(chaindb) == CHOOSE b \in chaindb : b.hash = "G"

\* BeaconStateMachine.__init__ with block = None: a child of the current head.
NewMachine(chaindb) ==
    LET head_block == HeadOf(chaindb) IN
    [block |-> [head_block EXCEPT !.hash = "B1",
                                  !.slot_number = head_block.slot_number + 1,
                                  !.parent_hash = head_block.hash],
     _crytallized_state |-> NoneValue,
     _active_state |-> NoneValue]

\* The attestations of the offered blocks, all for the head's slot.
AttBig(slot)    == Attestation(slot, << >>, <<FALSE, TRUE>>, "G", TRUE)
AttSmall(slot)  == Attestation(slot, << >>, <<TRUE, FALSE>>, "G", TRUE)
AttBadSig(slot) == Attestation(slot, << >>, <<TRUE, TRUE>>, "G", FALSE)
AttOblique(slot) == Attestation(slot, <<"B8">>, <<FALSE, TRUE>>, "G", TRUE)

\* The blocks offered to the machine, before their state roots are filled in.
OfferedBlocks(chaindb) ==
    LET head_block == HeadOf(chaindb)
        base == head_block.slot_number
        roots == <<head_block.crystallized_state_root, head_block.active_state_root>>
    IN  {Block("B1", "G", base + 1, << >>, TRUE, roots),
         Block("B2", "G", base + CYCLE_LENGTH, << >>, TRUE, roots),
         Block("B3", "G", base + CYCLE_LENGTH, <<AttBig(base)>>, TRUE, roots),
         Block("B4", "G", base + CYCLE_LENGTH, <<AttSmall(base), AttBig(base)>>, TRUE, roots),
         Block("B5", "X", base + 1, << >>, TRUE, roots),
         Block("B6", "G", base + 1, <<AttBig(base), AttBadSig(base)>>, TRUE, roots),
         Block("B7", "G", base + 1, <<AttSmall(base)>>, FALSE, roots),
         Block("B8", "G", base + CYCLE_LENGTH, <<AttOblique(base), AttSmall(base)>>,
               TRUE, roots)}

\* The blocks proposed (an empty one, one with an attestation at the end
\* of the cycle, one whose parent is unknown), and the shards and the private
\* keys of the proposals.
ProposedBlocks(chaindb) ==
    {b \in OfferedBlocks(chaindb) : b.hash \in {"B1", "B3", "B5"}}
ProposalShards == {0}
PrivateKeys == {1}

\* The deposit lists of the genesis build and the deposits made later.
InitialDeposits ==
    {<< >>,
     <<Deposit(1, MAX_DEPOSIT, TRUE)>>,
     <<Deposit(1, MAX_DEPOSIT, TRUE), Deposit(2, 1, TRUE)>>}

LaterDeposits ==
    {Deposit(1, 1, TRUE), Deposit(2, MAX_DEPOSIT, TRUE), Deposit(3, 1, FALSE)}

(***************************************************************************)
(* The state.  A behaviour follows either a state machine (scenario        *)
(* "machine": the vote cache, the chain database, the machine) or a        *)
(* BeaconState through the lifecycle calls (scenario "registry": beacon),   *)
(* or two transitions of one block that run at the same time on the vote   *)
(* cache (scenario "race": threads, each with its place in the transition  *)
(* and its local variables).                                               *)
(* call is the last call made, first the first run of process_block.       *)
(***************************************************************************)
VARIABLES scenario, block_vote_cache, chaindb, machine, beacon, call, first, ncalls, threads

vars == <<scenario, block_vote_cache, chaindb, machine, beacon, call, first, ncalls, threads>>

\* The BeaconState of a behaviour that follows no registry.
NoBeaconState ==
    EmptyBeaconState(GENESIS_SLOT, LATEST_BLOCK_ROOTS_LENGTH, EPOCH_LENGTH,
                     LATEST_PENALIZED_EXIT_LENGTH, LATEST_RANDAO_MIXES_LENGTH)

InitMachine ==
    /\ scenario = "machine"
    /\ \E cs0 \in PriorCrystallized, as0 \in PriorActive :
           chaindb = {HeadBlock(cs0, as0)}
    /\ beacon = NoBeaconState

\* A seed whose samples are all 0: every sample is accepted and swaps a place
\* with itself.
IdentitySeed == Repeat(0, WindowsPerHash * MaxRounds)

InitRegistry ==
    /\ scenario = "registry"
    /\ chaindb = {HeadBlock(GenesisCrystallized, GenesisActive)}
    /\ \E deposits \in InitialDeposits :
           beacon = get_initial_beacon_state(deposits, IdentitySeed, GENESIS_SLOT,
                        FAR_FUTURE_SLOT, SHARD_COUNT, LATEST_BLOCK_ROOTS_LENGTH,
                        EPOCH_LENGTH, TARGET_COMMITTEE_SIZE, MAX_DEPOSIT,
                        LATEST_PENALIZED_EXIT_LENGTH, LATEST_RANDAO_MIXES_LENGTH,
                        ENTRY_EXIT_DELAY).state

\* The transitions that run at the same time, and the block they process:
\* its two attestations vote for the block's own hash only.
Threads == {1, 2}

RaceActive ==
    ActiveState(<< >>, [i \in 1..(2 * CYCLE_LENGTH) |-> IF i % 2 = 1 THEN "B9" ELSE "G"])

RaceBlock ==
    Block("B9", "G", LateCrystallized.last_state_recalc + CYCLE_LENGTH,
          <<Attestation(LateCrystallized.last_state_recalc, <<"G">>, <<TRUE, FALSE>>, "G", TRUE),
            Attestation(LateCrystallized.last_state_recalc, <<"G">>, <<FALSE, TRUE>>, "G", TRUE)>>,
          TRUE, <<LateCrystallized, RaceActive>>)

Idle == [pc |-> "idle", a |-> 1, p |-> 1, voter_indices |-> << >>,
         voter_total_balance |-> 0, read |-> 0]

InitRace ==
    /\ scenario = "race"
    /\ chaindb = {HeadBlock(LateCrystallized, RaceActive)}
    /\ beacon = NoBeaconState

\* The inputs of the helpers: sequences with an element that occurs twice,
\* and the seeds, by the samples of their hash chains (accepted samples and
\* the largest 24-bit number, which is rejected for every length).
Letters == <<"a", "b", "b", "c", "a">>
HelperValues == {SubSeq(Letters, 1, n) : n \in 0..MaxLen}
SampleValues == {0, 1, 2, RAND_MAX}
Seeds == [1..(WindowsPerHash * MaxRounds) -> SampleValues]

\* The inputs of the genesis build: the lists of up to MaxDeposits deposits
\* (an exact, a short and an excessive amount, a second deposit for a key,
\* a proof that does not verify), the genesis slots, and the seeds
\* ZERO_HASH32 may stand for, by their first digest.
DepositChoices ==
    {Deposit(1, MAX_DEPOSIT, TRUE), Deposit(1, 1, TRUE),
     Deposit(2, MAX_DEPOSIT - 1, TRUE), Deposit(2, MAX_DEPOSIT, TRUE),
     Deposit(3, MAX_DEPOSIT + 1, TRUE), Deposit(3, 1, FALSE)}
GenesisDeposits == UNION {[1..n -> DepositChoices] : n \in 0..MaxDeposits}
GenesisSlots == {GENESIS_SLOT, GENESIS_SLOT + 1}
ZeroSeeds == {seed \in Seeds : \A i \in (WindowsPerHash + 1)..Len(seed) : seed[i] = 0}

\* The inputs of the cycle catch-up: the vote cache after the block
\* transition of block "B3" (no vote for its own hash, a vote of validator 1
\* with two thirds of the balance, a vote of validator 0 with one third), the
\* prior states (one whose dynasty may change, one whose streak was reset at
\* the last slot walked), the rings that hold the
\* block's hash at every place or at every other place, and the slots of the
\* block around the cycles to catch up.
VotedCache(voter_indices, voter_total_balance) ==
    set_voter_of_block_hash(init_block_vote_cache_block_hash(EmptyCache, "B3", "B3"),
                            "B3", "B3", voter_indices, voter_total_balance)
CatchUpCaches ==
    {CacheSetNew(EmptyCache, "B3"), VotedCache(<<1>>, 2), VotedCache(<<0>>, 1)}
\* A committee schedule whose entries differ from slot to slot.
SlotCommittees ==
    [i \in 1..(2 * CYCLE_LENGTH) |->
        <<[shard_id |-> (i - 1) % SHARD_COUNT,
           committee |-> IF i % 2 = 1 THEN <<0, 1>> ELSE <<1, 0>>]>>]
CatchUpStates ==
    PriorCrystallized
    \cup {[LateCrystallized EXCEPT !.dynasty_start = 0],
          [LateCrystallized EXCEPT !.justified_streak = 0,
                                   !.last_justified_slot = 2 * CYCLE_LENGTH - 2,
                                   !.shard_and_committee_for_slots = SlotCommittees]}
CatchUpActive ==
    {ActiveState(<< >>, [i \in 1..(2 * CYCLE_LENGTH) |-> IF i % 2 = 1 THEN "B3" ELSE "G"]),
     ActiveState(<< >>, Repeat("B3", 2 * CYCLE_LENGTH))}
\* The attestations pending at the catch-up: none, or some of the slots just
\* before, at and after last_state_recalc.
CatchUpPending(last_state_recalc) ==
    {<< >>,
     <<Attestation(last_state_recalc - 1, << >>, <<TRUE, FALSE>>, "G", TRUE),
       Attestation(last_state_recalc + 1, << >>, <<TRUE, TRUE>>, "G", TRUE),
       Attestation(last_state_recalc, << >>, <<FALSE, TRUE>>, "G", TRUE),
       Attestation(last_state_recalc - 1, << >>, <<TRUE, TRUE>>, "G", TRUE),
       Attestation(last_state_recalc, << >>, <<TRUE, FALSE>>, "G", TRUE)>>}
CatchUpSlots(last_state_recalc) ==
    {slot \in (last_state_recalc - 1)..(last_state_recalc + 2 * CYCLE_LENGTH + 1) : slot >= 0}

\* The inputs of the fold of a block's attestations: a state whose committees
\* differ from slot to slot (one seats validator 1 twice), the attestations
\* (single and double votes, the same validator from another seat, an
\* oblique parent hash, a signature that does not verify), and the blocks
\* carrying up to MaxAttestations of them in any order, one slot or more than
\* a cycle after the head of the chain, with or without an attestation
\* pending from an earlier block.
FoldCommittees == <<<<0, 1>>, <<1, 0>>, <<1, 1>>>>
FoldCrystallized ==
    [LateCrystallized EXCEPT
        !.shard_and_committee_for_slots =
            [i \in 1..(2 * CYCLE_LENGTH) |->
                <<[shard_id |-> 0, committee |-> FoldCommittees[((i - 1) % 3) + 1]]>>]]
FoldActive ==
    ActiveState(<< >>, [i \in 1..(2 * CYCLE_LENGTH) |-> IF i % 2 = 1 THEN "B3" ELSE "G"])
FoldSlot == FoldCrystallized.last_state_recalc - CYCLE_LENGTH
AttestationChoices ==
    {Attestation(FoldSlot, << >>, <<TRUE, FALSE>>, "G", TRUE),
     Attestation(FoldSlot, << >>, <<FALSE, TRUE>>, "G", TRUE),
     Attestation(FoldSlot + 1, << >>, <<TRUE, FALSE>>, "G", TRUE),
     Attestation(FoldSlot + 2, << >>, <<TRUE, TRUE>>, "G", TRUE),
     Attestation(FoldSlot, <<"G">>, <<TRUE, TRUE>>, "G", TRUE),
     Attestation(FoldSlot, << >>, <<TRUE, TRUE>>, "G", FALSE)}
FoldAttestationLists == UNION {[1..n -> AttestationChoices] : n \in 0..MaxAttestations}
FoldChain == {HeadBlock(FoldCrystallized, FoldActive)}
FoldInputs ==
    {[pending_attestations |-> << >>, attestations |-> attestations,
      slot_number |-> FoldCrystallized.last_state_recalc + 1] :
         attestations \in FoldAttestationLists}
    \cup {[pending_attestations |-> <<Attestation(FoldSlot + 2, << >>, <<TRUE, TRUE>>, "G", TRUE)>>,
           attestations |-> attestations, slot_number |-> slot_number] :
              attestations \in {a \in FoldAttestationLists : Len(a) < MaxAttestations},
              slot_number \in {FoldCrystallized.last_state_recalc + 1,
                               FoldCrystallized.last_state_recalc + CYCLE_LENGTH + 1}}
FoldBlock(attestations, slot_number) ==
    Block("B3", "G", slot_number, attestations, TRUE, <<FoldCrystallized, FoldActive>>)

\* The inputs of the eligibility test: a dynasty begun at slot 0 or 1, a
\* block MIN_DYNASTY_LENGTH - 1 or MIN_DYNASTY_LENGTH slots later, a last
\* finalized slot at or after the dynasty's start, schedules that name
\* shard 0, shards 0 and 1, or as many shards as they have slots, and
\* crosslink records of every shard dated slot 1 or 2, or no records at all.
DynastyStarts == {0, 1}
DynastySchedules ==
    {Committees, SlotCommittees,
     [i \in 1..(2 * CYCLE_LENGTH) |->
         <<[shard_id |-> (i - 1) % 2, committee |-> <<0, 1>>]>>]}
DynastyCrosslinks ==
    {Some([shard_id \in 1..SHARD_COUNT |-> [slot |-> slots[shard_id], hash |-> ZERO_HASH32]]) :
         slots \in [1..SHARD_COUNT -> {1, 2}]}
    \cup {NoneValue}
DynastyStates ==
    {[LateCrystallized EXCEPT !.dynasty_start = dynasty_start,
                              !.last_finalized_slot = dynasty_start + finalized,
                              !.shard_and_committee_for_slots = sched,
                              !.crosslink_records = links] :
         dynasty_start \in DynastyStarts, finalized \in {0, 1},
         sched \in DynastySchedules, links \in DynastyCrosslinks}
DynastySlots(dynasty_start) ==
    {dynasty_start + MIN_DYNASTY_LENGTH - 1, dynasty_start + MIN_DYNASTY_LENGTH}

\* The inputs of one window of the shuffle: a sequence of two or more values,
\* an index before its last place, and a sample that is small or among the
\* largest 24-bit numbers.
WindowSamples == {0, 1, 2} \cup ((RAND_MAX - MaxLen - 1)..RAND_MAX)
WindowInputs ==
    {[values |-> values, index |-> index, sample |-> sample] :
        values \in {v \in HelperValues : Len(v) >= 2}, index \in 0..(MaxLen - 2),
        sample \in WindowSamples}

\* The inputs of the ancestor search: a chain of MaxDepth + 1 blocks from the
\* genesis block on, with a skipped slot, and a block whose parent is not in
\* the database; the hash to start from (of a block, of no block, or the
\* genesis parent hash), the depth and the least slot.
ChainHashes == <<"P1", "P2", "P3", "P4", "P5", "P6">>
ChainSlot(k) == IF k >= 3 THEN k ELSE k - 1
AncestorChain ==
    {[hash |-> ChainHashes[k],
      parent_hash |-> IF k = 1 THEN GENESIS_PARENT_HASH ELSE ChainHashes[k - 1],
      slot_number |-> ChainSlot(k)] : k \in 1..(MaxDepth + 1)}
    \cup {[hash |-> "O1", parent_hash |-> "X", slot_number |-> 2]}
AncestorInputs ==
    {[last_block_hash |-> last_block_hash, max_search_depth |-> max_search_depth,
      min_slot_number |-> min_slot_number] :
        last_block_hash \in {b.hash : b \in AncestorChain} \cup {GENESIS_PARENT_HASH, "X"},
        max_search_depth \in 0..(MaxDepth + 1),
        min_slot_number \in 0..(MaxDepth + 2)}

InitHelpers ==
    /\ scenario = "helpers"
    /\ chaindb = {HeadBlock(GenesisCrystallized, GenesisActive)}
    /\ beacon = NoBeaconState

Init ==
    /\ (InitMachine \/ InitRegistry \/ InitRace \/ InitHelpers)
    /\ threads = [t \in Threads |->
                     [Idle EXCEPT !.pc = IF scenario = "race" THEN "reset" ELSE "idle"]]
    /\ machine = NewMachine(chaindb)
    /\ block_vote_cache = EmptyCache
    /\ call = [id |-> 0, op |-> "none"]
    /\ first = [valid |-> FALSE]
    /\ ncalls = 0

\* Blocks reach the machine in slot order.
InOrder(block) == block.slot_number >= machine.block.slot_number

\* A caller (a proposer, a test) runs process_block on the machine's states.
ProcessBlock(block) ==
    /\ scenario = "machine"
    /\ ncalls < MaxCalls
    /\ InOrder(block)
    /\ \E r \in {process_block(block_vote_cache, crystallized_state(machine, chaindb),
                                active_state(machine, chaindb), block, chaindb)} :
          /\ block_vote_cache' = r.cache
          /\ call' = [id |-> ncalls + 1, op |-> "process_block", block |-> block,
                      crystallized_state |-> crystallized_state(machine, chaindb),
                      active_state |-> active_state(machine, chaindb),
                      outcome |-> [error |-> r.error, block |-> r.block,
                                   crystallized_state |-> r.crystallized_state,
                                   active_state |-> r.active_state]]
    /\ machine' = LoadStates(machine, chaindb)
    /\ first' = IF first.valid THEN first
                ELSE [valid |-> TRUE, block |-> block,
                      crystallized_state |-> call'.crystallized_state,
                      active_state |-> call'.active_state, outcome |-> call'.outcome]
    /\ ncalls' = ncalls + 1
    /\ UNCHANGED <<scenario, chaindb, beacon, threads>>

\* The state roots a block may claim: those its proposer computes with
\* process_block on the machine's states, or the roots of the prior states.
ClaimedRoots(block) ==
    {<<StateRoot(crystallized_state(machine, chaindb)),
       StateRoot(active_state(machine, chaindb))>>}
    \cup {<<StateRoot(r.crystallized_state), StateRoot(r.active_state)>> :
             r \in {process_block(block_vote_cache, crystallized_state(machine, chaindb),
                                  active_state(machine, chaindb), block, chaindb)}}

ImportBlock(block) ==
    /\ scenario = "machine"
    /\ ncalls < MaxCalls
    /\ InOrder(block)
    /\ \E r \in {import_block(block_vote_cache, machine, block, chaindb)} :
          /\ block_vote_cache' = r.cache
          /\ machine' = r.machine
          /\ call' = [id |-> ncalls + 1, op |-> "import_block", block |-> block,
                      crystallized_state |-> crystallized_state(machine, chaindb),
                      active_state |-> active_state(machine, chaindb),
                      outcome |-> [error |-> r.error, block |-> r.machine.block,
                                   crystallized_state |-> crystallized_state(r.machine, chaindb),
                                   active_state |-> active_state(r.machine, chaindb)]]
    /\ ncalls' = ncalls + 1
    /\ UNCHANGED <<scenario, chaindb, beacon, first, threads>>

\* A proposer runs propose_block on the machine's states.
ProposeBlock(block, shard_id, private_key) ==
    /\ scenario = "machine"
    /\ ncalls < MaxCalls
    /\ InOrder(block)
    /\ \E r \in {propose_block(block_vote_cache, crystallized_state(machine, chaindb),
                                active_state(machine, chaindb),
                                BlockProposal(block, shard_id, ZERO_HASH32), chaindb,
                                private_key)} :
          /\ block_vote_cache' = r.cache
          /\ call' = [id |-> ncalls + 1, op |-> "propose_block", block |-> block,
                      shard_id |-> shard_id,
                      processed |-> r.processed,
                      outcome |-> [error |-> r.error, block |-> r.block,
                                   crystallized_state |-> r.crystallized_state,
                                   active_state |-> r.active_state,
                                   attestation |-> r.attestation]]
    /\ machine' = LoadStates(machine, chaindb)
    /\ ncalls' = ncalls + 1
    /\ UNCHANGED <<scenario, chaindb, beacon, first, threads>>

\* A lifecycle call op(index) returning res = [error, state]: the caller keeps
\* the returned state, or the one it had when the call raises.
Lifecycle(op, index, res) ==
    /\ scenario = "registry"
    /\ ncalls < MaxOps
    /\ beacon' = res.state
    /\ call' = [id |-> ncalls + 1, op |-> op, index |-> index, error |-> res.error,
                changed |-> res.state # beacon]
    /\ ncalls' = ncalls + 1
    /\ UNCHANGED <<scenario, block_vote_cache, chaindb, machine, first, threads>>

\* The indices of the registry, counted from 0.
Indices == 0..(Len(beacon.validator_registry) - 1)

ProcessDeposit(deposit) ==
    Lifecycle("process_deposit", -1, process_deposit(beacon, deposit, FAR_FUTURE_SLOT))

\* The call record of an activation also holds the genesis argument.
ActivateValidator(index, genesis) ==
    /\ scenario = "registry"
    /\ ncalls < MaxOps
    /\ beacon' = activate_validator(beacon, index, genesis, GENESIS_SLOT, ENTRY_EXIT_DELAY)
    /\ call' = [id |-> ncalls + 1, op |-> "activate_validator", index |-> index,
                genesis |-> genesis, error |-> "", changed |-> beacon' # beacon]
    /\ ncalls' = ncalls + 1
    /\ UNCHANGED <<scenario, block_vote_cache, chaindb, machine, first, threads>>

InitiateValidatorExit(index) ==
    Lifecycle("initiate_validator_exit", index,
        [error |-> "", state |-> initiate_validator_exit(beacon, index)])

ExitValidator(index) ==
    Lifecycle("exit_validator", index,
        [error |-> "", state |-> exit_validator(beacon, index, ENTRY_EXIT_DELAY)])

PenalizeValidator(index) ==
    Lifecycle("penalize_validator", index,
        penalize_validator(beacon, index, EPOCH_LENGTH, LATEST_PENALIZED_EXIT_LENGTH,
                           WHISTLEBLOWER_REWARD_QUOTIENT, ENTRY_EXIT_DELAY, MAX_DEPOSIT))

PrepareValidatorForWithdrawal(index) ==
    Lifecycle("prepare_validator_for_withdrawal", index,
        [error |-> "", state |-> prepare_validator_for_withdrawal(beacon, index)])

\* The slot of the state advances between calls.
NextSlot ==
    /\ scenario = "registry"
    /\ beacon.slot < MaxSlot
    /\ beacon' = [beacon EXCEPT !.slot = @ + 1]
    /\ UNCHANGED <<scenario, block_vote_cache, chaindb, machine, call, first, ncalls,
                   threads>>

(***************************************************************************)
(* Two transitions of RaceBlock on the process-wide vote cache.  A step is *)
(* one access of a transition to the cache: the reset (line 354), the      *)
(* creation of an entry (386-391), the read of an entry with the fold of   *)
(* the attestation into local variables (437-448), the two stores of       *)
(* set_voter_of_block_hash (406, 407) and the read of the cycle transition *)
(* (499-506).  The subscript of a missing key raises KeyError, which ends  *)
(* the transition (pc = "error").                                          *)
(***************************************************************************)
\* The next vote to fold from attestation a, parent hash p on: the loops of
\* lines 358 and 428-431, oblique parent hashes skipped.
RECURSIVE NextVote(_, _, _, _)
NextVote(block, recent_block_hashes, a, p) ==
    IF a > Len(block.attestations) THEN [a |-> a, p |-> 1]
    ELSE LET hashes == get_signed_parent_hashes(recent_block_hashes, block,
                                                block.attestations[a], CYCLE_LENGTH)
         IN  IF p > Len(hashes) THEN NextVote(block, recent_block_hashes, a + 1, 1)
             ELSE IF InSeq(hashes[p], block.attestations[a].oblique_parent_hashes)
             THEN NextVote(block, recent_block_hashes, a, p + 1)
             ELSE [a |-> a, p |-> p]

\* The thread at the vote `at`, or at the cycle transition when none is left.
GoTo(thread, at) ==
    [thread EXCEPT !.a = at.a, !.p = at.p,
                   !.pc = IF at.a > Len(RaceBlock.attestations) THEN "read" ELSE "init"]

\* The parent hash thread t is folding its attestation into.
ParentHash(t) ==
    get_signed_parent_hashes(RaceActive.recent_block_hashes, RaceBlock,
        RaceBlock.attestations[threads[t].a], CYCLE_LENGTH)[threads[t].p]

HasEntry(t) ==
    /\ RaceBlock.hash \in DOMAIN block_vote_cache.dict
    /\ ParentHash(t) \in DOMAIN block_vote_cache.dict[RaceBlock.hash]

RaceFrame == UNCHANGED <<scenario, chaindb, machine, beacon, call, first, ncalls>>

Reset(t) ==
    /\ threads[t].pc = "reset"
    /\ block_vote_cache' = CacheSetNew(block_vote_cache, RaceBlock.hash)
    /\ threads' = [threads EXCEPT ![t] =
           GoTo(@, NextVote(RaceBlock, RaceActive.recent_block_hashes, 1, 1))]
    /\ RaceFrame

InitEntry(t) ==
    /\ threads[t].pc = "init"
    /\ block_vote_cache' = init_block_vote_cache_block_hash(block_vote_cache,
                               RaceBlock.hash, ParentHash(t))
    /\ threads' = [threads EXCEPT ![t].pc = "get"]
    /\ RaceFrame

GetVoter(t) ==
    /\ threads[t].pc = "get"
    /\ \E folded \in {FoldSeats(LateCrystallized, RaceBlock.attestations[threads[t].a],
                           get_attestation_indices(LateCrystallized,
                               RaceBlock.attestations[threads[t].a], CYCLE_LENGTH),
                           0,
                           get_voter_of_block_hash(block_vote_cache, RaceBlock.hash,
                                                   ParentHash(t)))} :
          threads' = [threads EXCEPT ![t] =
              IF folded.error # "" THEN [@ EXCEPT !.pc = "error"]
              ELSE [@ EXCEPT !.pc = "set_indices",
                             !.voter_indices = folded.voter_indices,
                             !.voter_total_balance = folded.voter_total_balance]]
    /\ UNCHANGED block_vote_cache
    /\ RaceFrame

\* One store of set_voter_of_block_hash: field is VOTER_INDICES or
\* VOTER_TOTAL_BALANCE.
Store(t, field, value, pc) ==
    /\ IF HasEntry(t)
       THEN /\ block_vote_cache' = CacheMutate(block_vote_cache, RaceBlock.hash,
                   [block_vote_cache.dict[RaceBlock.hash] EXCEPT
                       ![ParentHash(t)][field] = value])
            /\ threads' = [threads EXCEPT ![t] = pc]
       ELSE /\ threads' = [threads EXCEPT ![t].pc = "error"]
            /\ UNCHANGED block_vote_cache
    /\ RaceFrame

SetVoterIndices(t) ==
    /\ threads[t].pc = "set_indices"
    /\ Store(t, VOTER_INDICES, threads[t].voter_indices,
             [threads[t] EXCEPT !.pc = "set_balance"])

SetVoterBalance(t) ==
    /\ threads[t].pc = "set_balance"
    /\ Store(t, VOTER_TOTAL_BALANCE, threads[t].voter_total_balance,
             GoTo(threads[t], NextVote(RaceBlock, RaceActive.recent_block_hashes,
                                       threads[t].a, threads[t].p + 1)))

CycleRead(t) ==
    /\ threads[t].pc = "read"
    /\ \E attesting \in {total_balance_attesting_at_s(block_vote_cache, RaceBlock,
                                                      RaceBlock.hash)} :
          threads' = [threads EXCEPT ![t] =
              IF attesting.error # "" THEN [@ EXCEPT !.pc = "error"]
              ELSE [@ EXCEPT !.pc = "done", !.read = attesting.balance]]
    /\ UNCHANGED block_vote_cache
    /\ RaceFrame

(***************************************************************************)
(* The helpers, each applied once to an input.                             *)
(***************************************************************************)
\* No helper has been called yet.
HelperIdle == scenario = "helpers" /\ ncalls = 0

Helper(op, input, res) ==
    /\ HelperIdle
    /\ call' = [id |-> 1, op |-> op, input |-> input, outcome |-> res]
    /\ ncalls' = 1
    /\ UNCHANGED <<scenario, block_vote_cache, chaindb, machine, beacon, first, threads>>

Shuffle(values, seed) ==
    Helper("shuffle", [values |-> values, seed |-> seed], shuffle(values, seed))

Split(seq, split_count) ==
    Helper("split", [seq |-> seq, split_count |-> split_count], split(seq, split_count))

GetInitialBeaconState(deposits, zero_seed, genesis_slot) ==
    Helper("get_initial_beacon_state",
        [initial_validator_deposits |-> deposits, genesis_slot |-> genesis_slot],
        get_initial_beacon_state(deposits, zero_seed, genesis_slot, FAR_FUTURE_SLOT,
            SHARD_COUNT, LATEST_BLOCK_ROOTS_LENGTH, EPOCH_LENGTH, TARGET_COMMITTEE_SIZE,
            MAX_DEPOSIT, LATEST_PENALIZED_EXIT_LENGTH, LATEST_RANDAO_MIXES_LENGTH,
            ENTRY_EXIT_DELAY))

ComputeCycleTransitions(cache, prior, ring, slot) ==
    Helper("compute_cycle_transitions",
        [cache |-> cache, crystallized_state |-> prior, active_state |-> ring,
         block |-> Block("B3", "G", slot, << >>, TRUE, <<prior, ring>>)],
        compute_cycle_transitions(cache, prior, ring,
            Block("B3", "G", slot, << >>, TRUE, <<prior, ring>>)))

ComputePerBlockTransition(pending_attestations, attestations, slot_number) ==
    Helper("compute_per_block_transtion",
        [crystallized_state |-> FoldCrystallized,
         active_state |-> [FoldActive EXCEPT !.pending_attestations = pending_attestations],
         block |-> FoldBlock(attestations, slot_number)],
        compute_per_block_transtion(EmptyCache, FoldCrystallized,
            [FoldActive EXCEPT !.pending_attestations = pending_attestations],
            FoldBlock(attestations, slot_number), FoldChain, CYCLE_LENGTH))

ReadyForDynastyTransition(prior, slot) ==
    Helper("ready_for_dynasty_transition",
        [crystallized_state |-> prior, slot_number |-> slot],
        ready_for_dynasty_transition(prior,
            Block("B3", "G", slot, << >>, TRUE, <<prior, GenesisActive>>)))

\* lines 470-475: the loop calls compute_dynasty_transition when the test
\* answered true, and takes what it returns as the crystallized state.
ComputeDynastyTransition(prior, slot) ==
    Helper("compute_dynasty_transition",
        [crystallized_state |-> prior, slot_number |-> slot],
        compute_dynasty_transition(prior,
            Block("B3", "G", slot, << >>, TRUE, <<prior, GenesisActive>>)))

\* lines 53-81: one window of the loop, with remaining = values_count - index > 1
ShuffleWindow(values, index, sample) ==
    Helper("shuffle_window", [values |-> values, index |-> index, sample |-> sample],
        UseSample([output |-> values, index |-> index, exhausted |-> FALSE],
                  sample, Len(values) - index))

GetPrevBlocks(last_block_hash, max_search_depth, min_slot_number) ==
    Helper("get_prev_blocks",
        [last_block_hash |-> last_block_hash, max_search_depth |-> max_search_depth,
         min_slot_number |-> min_slot_number],
        get_prev_blocks(last_block_hash, AncestorChain, max_search_depth, min_slot_number))

Next ==
    \/ \E b \in OfferedBlocks(chaindb) : ProcessBlock(b)
    \/ \E b \in OfferedBlocks(chaindb) : \E roots \in ClaimedRoots(b) :
           ImportBlock([b EXCEPT !.crystallized_state_root = roots[1],
                                 !.active_state_root = roots[2]])
    \/ \E b \in ProposedBlocks(chaindb), shard_id \in ProposalShards,
          private_key \in PrivateKeys : ProposeBlock(b, shard_id, private_key)
    \/ \E deposit \in LaterDeposits : ProcessDeposit(deposit)
    \/ \E index \in Indices, genesis \in BOOLEAN : ActivateValidator(index, genesis)
    \/ \E index \in Indices : InitiateValidatorExit(index)
    \/ \E index \in Indices : ExitValidator(index)
    \/ \E index \in Indices : PenalizeValidator(index)
    \/ \E index \in Indices : PrepareValidatorForWithdrawal(index)
    \/ NextSlot
    \/ \E t \in Threads : Reset(t)
    \/ \E t \in Threads : InitEntry(t)
    \/ \E t \in Threads : GetVoter(t)
    \/ \E t \in Threads : SetVoterIndices(t)
    \/ \E t \in Threads : SetVoterBalance(t)
    \/ \E t \in Threads : CycleRead(t)
    \/ HelperIdle /\ \E values \in HelperValues, seed \in Seeds : Shuffle(values, seed)
    \/ HelperIdle /\ \E seq \in HelperValues, split_count \in 1..MaxSplit :
           Split(seq, split_count)
    \/ HelperIdle /\ \E deposits \in GenesisDeposits, zero_seed \in ZeroSeeds,
                        genesis_slot \in GenesisSlots :
           GetInitialBeaconState(deposits, zero_seed, genesis_slot)
    \/ HelperIdle /\ \E cache \in CatchUpCaches, prior \in CatchUpStates,
                        ring \in CatchUpActive :
           \E slot \in CatchUpSlots(prior.last_state_recalc),
              pending \in CatchUpPending(prior.last_state_recalc) :
               ComputeCycleTransitions(cache, prior,
                   [ring EXCEPT !.pending_attestations = pending], slot)
    \/ HelperIdle /\ \E input \in FoldInputs :
           ComputePerBlockTransition(input.pending_attestations, input.attestations,
                                     input.slot_number)
    \/ HelperIdle /\ \E prior \in DynastyStates :
           \E slot \in DynastySlots(prior.dynasty_start) :
               ReadyForDynastyTransition(prior, slot)
    \/ HelperIdle /\ \E prior \in DynastyStates :
           \E slot \in {n \in DynastySlots(prior.dynasty_start) :
                          ready_for_dynasty_transition(prior,
                              Block("B3", "G", n, << >>, TRUE, <<prior, GenesisActive>>)) = "True"} :
               ComputeDynastyTransition(prior, slot)
    \/ HelperIdle /\ \E input \in {w \in WindowInputs : Len(w.values) - w.index > 1} :
           ShuffleWindow(input.values, input.index, input.sample)
    \/ HelperIdle /\ \E input \in AncestorInputs :
           GetPrevBlocks(input.last_block_hash, input.max_search_depth,
                         input.min_slot_number)

Spec == Init /\ [][Next]_vars

(***************************************************************************)
(* The properties of the state machine.                                    *)
(***************************************************************************)
Called == call.op \in {"process_block", "import_block"}

\* The block of the last call reaches the next cycle boundary of its input state.
CrossesCycle ==
    call.block.slot_number >= call.crystallized_state.last_state_recalc + CYCLE_LENGTH

C2_RejectedImportKeepsState ==
    [][(call' # call /\ call'.op = "import_block" /\ call'.outcome.error # "") =>
          /\ machine'.block = machine.block
          /\ crystallized_state(machine', chaindb') = crystallized_state(machine, chaindb)
          /\ active_state(machine', chaindb') = active_state(machine, chaindb)]_vars

\* An import of a block without attestations is rejected for its state roots:
\* the transition itself succeeded and produced a different active state.
C2_Witness ==
    /\ Called /\ call.op = "import_block"
    /\ call.outcome.error = "ValidationError"
    /\ call.block.attestations = << >>
    /\ call.block.parent_proposer_ok
    /\ call.block.active_state_root = call.active_state
    /\ active_state(machine, chaindb) = call.active_state

C3_I1 == Len(beacon.validator_registry) = Len(beacon.validator_balances)

\* A validator of a registry of two was penalized and both its balance and
\* the proposer's were rewritten.
C3_Witness ==
    /\ scenario = "registry" /\ call.op = "penalize_validator" /\ call.error = ""
    /\ Len(beacon.validator_registry) >= 2
    /\ call.changed
    /\ beacon.validator_registry[call.index + 1].penalized_slot = beacon.slot

\* C4: invariant I3.  Every validator of the registry has
\* activation_slot <= exit_slot <= withdrawal_slot.
C4_I3 ==
    \A i \in 1..Len(beacon.validator_registry) :
        /\ beacon.validator_registry[i].activation_slot
              <= beacon.validator_registry[i].exit_slot
        /\ beacon.validator_registry[i].exit_slot
              <= beacon.validator_registry[i].withdrawal_slot

\* The last call was an exit that is not a no-op: the validator's exit_slot
\* was later than slot + ENTRY_EXIT_DELAY and the call returned.
ExitDone ==
    /\ call'.op \in {"exit_validator", "penalize_validator"}
    /\ call'.error = ""
    /\ beacon.validator_registry[call'.index + 1].exit_slot
          > beacon.slot + ENTRY_EXIT_DELAY

CachedBalance(attestation_block_hash, block_hash) ==
    IF /\ attestation_block_hash \in DOMAIN block_vote_cache.dict
       /\ block_hash \in DOMAIN block_vote_cache.dict[attestation_block_hash]
    THEN block_vote_cache.dict[attestation_block_hash][block_hash].VOTER_TOTAL_BALANCE
    ELSE 0

\* The ring the cycle transition of the last call walks over.
WalkedRing ==
    get_new_recent_block_hashes(call.active_state.recent_block_hashes,
        HeadOf(chaindb).slot_number, call.block.slot_number, call.block.parent_hash)

\* The per-block transition of the last process_block call succeeded and the
\* block reaches the cycle boundary of a state with validators.
CycleRan ==
    /\ Called /\ call.op = "process_block"
    /\ call.outcome.error \notin {"BlockNotFound", "ValidationError"}
    /\ ~call.crystallized_state.validators.is_none
    /\ CrossesCycle

\* C7: the justification trigger.  After the cycle transition of block B,
\* every window position i whose hash h has a balance v cached under
\* (B.hash, h) with 3 * v >= 2 * total_balance is justified:
\* last_justified_slot >= (last_state_recalc - CYCLE_LENGTH) + i.
C7_JustifiedByCachedKey ==
    CycleRan =>
        \A i \in 0..(CYCLE_LENGTH - 1) :
            3 * CachedBalance(call.block.hash, WalkedRing[i + 1])
                  >= 2 * total_balance(call.crystallized_state)
            => call.outcome.crystallized_state.last_justified_slot
                  >= (call.crystallized_state.last_state_recalc - CYCLE_LENGTH) + i

\* C8: a cycle boundary without votes.  A block without attestations that
\* reaches the boundary completes the cycle transition: last_state_recalc
\* grows by CYCLE_LENGTH, no slot is newly justified, justified_streak is 0.
C8_EmptyCycleCompletes ==
    (CycleRan /\ call.block.attestations = << >>) =>
        /\ call.outcome.error = ""
        /\ call.outcome.crystallized_state.last_state_recalc
              = call.crystallized_state.last_state_recalc + CYCLE_LENGTH
        /\ call.outcome.crystallized_state.last_justified_slot
              = call.crystallized_state.last_justified_slot
        /\ call.outcome.crystallized_state.justified_streak = 0

\* C9: the entries of other blocks are kept.  A call on block B leaves every
\* vote-cache entry keyed by another block hash in the cache, with the voter
\* sets and balances it had.
C9_OtherEntriesKept ==
    [][(call' # call /\ call'.op \in {"process_block", "import_block"}) =>
          \A h \in DOMAIN block_vote_cache.dict \ {call'.block.hash} :
              /\ h \in DOMAIN block_vote_cache'.dict
              /\ block_vote_cache'.dict[h] = block_vote_cache.dict[h]]_vars

\* An import with attestations filled the entry of its block while the cache
\* held the votes of another block.
C9_Witness ==
    /\ Called /\ call.op = "import_block"
    /\ call.block.hash \in DOMAIN block_vote_cache.dict
    /\ block_vote_cache.dict[call.block.hash] # EmptyDict
    /\ \E h \in DOMAIN block_vote_cache.dict \ {call.block.hash} :
          block_vote_cache.dict[h] # EmptyDict

\* What a single run of process_block on RaceBlock leaves in the cache and
\* reads in its cycle transition.
SerialCache ==
    compute_per_block_transtion(EmptyCache, LateCrystallized, RaceActive, RaceBlock,
                                chaindb, CYCLE_LENGTH).cache

SerialRead == total_balance_attesting_at_s(SerialCache, RaceBlock, RaceBlock.hash).balance

\* C10: two transitions of the same block that interleave on the vote cache
\* behave as one serial run.  No transition fails, every cycle transition
\* reads the balance the serial run reads, and when both have ended the
\* cache entry of the block is the one the serial run leaves.
C10_SerialEquivalent ==
    scenario = "race" =>
        /\ \A t \in Threads :
              /\ threads[t].pc # "error"
              /\ threads[t].pc = "done" => threads[t].read = SerialRead
        /\ (\A t \in Threads : threads[t].pc = "done") =>
              block_vote_cache.dict[RaceBlock.hash] = SerialCache.dict[RaceBlock.hash]

(***************************************************************************)
(* The properties of the registry, the genesis build and the helpers.      *)
(***************************************************************************)
\* The delta block of an event of the validator call'.index, on top of the tip.
DeltaBlockOf(slot, flag) ==
    Append(beacon.validator_registry_delta_chain_tip,
           [validator_index |-> call'.index,
            pubkey |-> beacon.validator_registry[call'.index + 1].pubkey,
            slot |-> slot, flag |-> flag])

\* C11: invariant I6.  An activate_validator call replaces the delta chain
\* tip by the root of (tip, index, pubkey, new activation slot, ACTIVATION),
\* an exit that is not a no-op (by exit_validator or inside
\* penalize_validator) by the root of (tip, index, pubkey,
\* slot + ENTRY_EXIT_DELAY, EXIT); every other step (initiate_validator_exit,
\* prepare_validator_for_withdrawal, a no-op exit, the penalty settlement, a
\* deposit, a call that raises) leaves the tip as it was.
C11_TipFollowsEvents ==
    [][beacon'.validator_registry_delta_chain_tip =
          IF call' # call /\ scenario = "registry" /\ call'.op = "activate_validator"
          THEN DeltaBlockOf(beacon'.validator_registry[call'.index + 1].activation_slot,
                            "ACTIVATION")
          ELSE IF call' # call /\ scenario = "registry" /\ ExitDone
          THEN DeltaBlockOf(beacon.slot + ENTRY_EXIT_DELAY, "EXIT")
          ELSE beacon.validator_registry_delta_chain_tip]_vars

\* An exit extended a tip that held an activation, stamped with an exit slot
\* later than the slot of the state.
C11_Witness ==
    /\ scenario = "registry" /\ call.op = "exit_validator" /\ call.changed
    /\ Len(beacon.validator_registry_delta_chain_tip) >= 2
    /\ beacon.validator_registry_delta_chain_tip[1].flag = "ACTIVATION"
    /\ LET last == beacon.validator_registry_delta_chain_tip[
                       Len(beacon.validator_registry_delta_chain_tip)]
       IN  /\ last.flag = "EXIT"
           /\ last.validator_index = call.index
           /\ last.slot = beacon.slot + ENTRY_EXIT_DELAY

\* C12: ring-buffer lengths never change.  After the genesis build and after
\* every lifecycle call and every per-block and per-cycle transition,
\* latest_block_roots has LATEST_BLOCK_ROOTS_LENGTH items, latest_randao_mixes
\* LATEST_RANDAO_MIXES_LENGTH, latest_penalized_exit_balances
\* LATEST_PENALIZED_EXIT_LENGTH, and recent_block_hashes, in the machine's
\* active state and in every active state a call returns, 2 * CYCLE_LENGTH.
C12_RingLengths ==
    /\ Len(beacon.latest_block_roots) = LATEST_BLOCK_ROOTS_LENGTH
    /\ Len(beacon.latest_randao_mixes) = LATEST_RANDAO_MIXES_LENGTH
    /\ Len(beacon.latest_penalized_exit_balances) = LATEST_PENALIZED_EXIT_LENGTH
    /\ Len(active_state(machine, chaindb).recent_block_hashes) = 2 * CYCLE_LENGTH
    /\ (Called /\ call.outcome.error = "") =>
          Len(call.outcome.active_state.recent_block_hashes) = 2 * CYCLE_LENGTH

\* A penalization wrote its bucket of latest_penalized_exit_balances.
C12_Witness ==
    /\ scenario = "registry" /\ call.op = "penalize_validator" /\ call.error = ""
    /\ \E i \in 1..Len(beacon.latest_penalized_exit_balances) :
          /\ beacon.latest_penalized_exit_balances[i].is_tuple
          /\ beacon.latest_penalized_exit_balances[i].value > 0

\* The number of places of s that hold x.
Count(s, x) == Cardinality({i \in 1..Len(s) : s[i] = x})

SameMultiset(s, t) ==
    /\ Len(s) = Len(t)
    /\ \A i \in 1..Len(s) : Count(s, s[i]) = Count(t, s[i])

\* C13: shuffle is a permutation.  Every shuffle that returns gives a
\* sequence of the length of the input with the same elements, each as many
\* times as in the input, and leaves the caller's sequence as it was.
C13_ShuffleIsPermutation ==
    (call.op = "shuffle" /\ ~call.outcome.exhausted) =>
        /\ call.outcome.error = ""
        /\ SameMultiset(call.outcome.output, call.input.values)
        /\ call.outcome.values = call.input.values

\* A shuffle of a sequence with a repeated element that rejected a sample,
\* hashed the seed again and returned another order.
C13_Witness ==
    /\ call.op = "shuffle" /\ ~call.outcome.exhausted
    /\ Len(call.input.values) = MaxLen
    /\ call.input.seed[1] = RAND_MAX
    /\ call.input.seed[WindowsPerHash + 1] < RAND_MAX
    /\ call.outcome.output # call.input.values
    /\ call.outcome.output[1] = call.input.values[MaxLen]

\* The pieces of a tuple of sequences joined in order.
RECURSIVE Concat(_)
Concat(pieces) ==
    IF pieces = << >> THEN << >> ELSE Head(pieces) \o Concat(Tail(pieces))

\* C14: split conservation.  split(seq, k) for k >= 1 returns k pieces that
\* joined in order give seq, piece j (from 0) holding the items at the places
\* n*j \div k .. n*(j+1) \div k - 1, and two pieces differ in size by at most 1.
C14_SplitConserves ==
    call.op = "split" =>
        LET n == Len(call.input.seq)
            k == call.input.split_count
        IN  /\ Len(call.outcome) = k
            /\ Concat(call.outcome) = call.input.seq
            /\ \A j \in 0..(k - 1) :
                  call.outcome[j + 1] =
                      [i \in 1..(((n * (j + 1)) \div k) - ((n * j) \div k)) |->
                          call.input.seq[((n * j) \div k) + i]]
            /\ \A i, j \in 1..k :
                  Len(call.outcome[i]) - Len(call.outcome[j]) <= 1

\* A split into pieces of unequal sizes, none of them empty.
C14_Witness ==
    /\ call.op = "split"
    /\ call.input.split_count = 2
    /\ Len(call.input.seq) = MaxLen
    /\ Len(call.outcome[1]) # Len(call.outcome[2])
    /\ call.outcome[1] # << >>

\* The last call was a genesis build that returned a state.
GenesisBuilt == call.op = "get_initial_beacon_state" /\ call.outcome.error = ""

\* C15: genesis activation.  In the state get_initial_beacon_state returns,
\* the slot is the genesis slot, and a validator has the genesis slot as its
\* activation_slot exactly when its effective balance, the smaller of its
\* balance and MAX_DEPOSIT, equals MAX_DEPOSIT; every other validator has
\* activation_slot = FAR_FUTURE_SLOT.
C15_GenesisActivation ==
    GenesisBuilt =>
        /\ call.outcome.state.slot = call.input.genesis_slot
        /\ \A i \in 1..Len(call.outcome.state.validator_registry) :
              IF Min(call.outcome.state.validator_balances[i], MAX_DEPOSIT) = MAX_DEPOSIT
              THEN call.outcome.state.validator_registry[i].activation_slot
                       = call.input.genesis_slot
              ELSE call.outcome.state.validator_registry[i].activation_slot
                       = FAR_FUTURE_SLOT

\* A genesis build at a later genesis slot with a validator activated on an
\* excessive balance, one on an exact balance, and one left pending.
C15_Witness ==
    /\ GenesisBuilt
    /\ call.input.genesis_slot > GENESIS_SLOT
    /\ \E i, j, k \in 1..Len(call.outcome.state.validator_registry) :
          /\ call.outcome.state.validator_balances[i] > MAX_DEPOSIT
          /\ call.outcome.state.validator_registry[i].activation_slot
                 = call.input.genesis_slot
          /\ call.outcome.state.validator_balances[j] = MAX_DEPOSIT
          /\ call.outcome.state.validator_registry[j].activation_slot
                 = call.input.genesis_slot
          /\ call.outcome.state.validator_balances[k] < MAX_DEPOSIT
          /\ call.outcome.state.validator_registry[k].activation_slot = FAR_FUTURE_SLOT

\* The validator indices of all committees of the schedule, with the place of
\* each: <<slot entry, committee, seat>>.
Seats(schedule) ==
    {<<s, c, k>> \in (1..Len(schedule)) \X (1..SHARD_COUNT) \X (1..MaxDeposits) :
        /\ c <= Len(schedule[s])
        /\ k <= Len(schedule[s][c].committee)}

\* C16: genesis committee schedule.  In the state get_initial_beacon_state
\* returns, shard_committees_at_slots has 2 * EPOCH_LENGTH entries, entry s
\* equals entry EPOCH_LENGTH + s for every s of the first EPOCH_LENGTH, and
\* every member of every committee is an index of the validator registry.
C16_GenesisSchedule ==
    GenesisBuilt =>
        /\ Len(call.outcome.state.shard_committees_at_slots) = 2 * EPOCH_LENGTH
        /\ \A s \in 1..EPOCH_LENGTH :
              call.outcome.state.shard_committees_at_slots[s]
                  = call.outcome.state.shard_committees_at_slots[EPOCH_LENGTH + s]
        /\ \A seat \in Seats(call.outcome.state.shard_committees_at_slots) :
              call.outcome.state.shard_committees_at_slots[seat[1]][seat[2]]
                  .committee[seat[3]]
                  \in 0..(Len(call.outcome.state.validator_registry) - 1)

\* A genesis build with a pending validator first in the registry, so that
\* the highest index is seated, and two entries of an epoch that differ.
C16_Witness ==
    /\ GenesisBuilt
    /\ Len(call.outcome.state.validator_registry) > 1
    /\ call.outcome.state.validator_registry[1].activation_slot = FAR_FUTURE_SLOT
    /\ \E seat \in Seats(call.outcome.state.shard_committees_at_slots) :
          call.outcome.state.shard_committees_at_slots[seat[1]][seat[2]]
              .committee[seat[3]]
              = Len(call.outcome.state.validator_registry) - 1
    /\ \E s, t \in 1..EPOCH_LENGTH :
          call.outcome.state.shard_committees_at_slots[s]
              # call.outcome.state.shard_committees_at_slots[t]

\* The effect of a deposit with a valid proof on the registry and the balances.
DepositEffect(deposit) ==
    LET known == {i \in 1..Len(beacon.validator_registry) :
                     beacon.validator_registry[i].pubkey = deposit.pubkey}
    IN  IF known # {}
        THEN /\ beacon'.validator_registry = beacon.validator_registry
             /\ Len(beacon'.validator_balances) = Len(beacon.validator_balances)
             /\ \A i \in 1..Len(beacon.validator_balances) :
                   beacon'.validator_balances[i] =
                       IF i \in known
                       THEN beacon.validator_balances[i] + deposit.amount
                       ELSE beacon.validator_balances[i]
        ELSE /\ Len(beacon'.validator_registry) = Len(beacon.validator_registry) + 1
             /\ SubSeq(beacon'.validator_registry, 1, Len(beacon.validator_registry))
                    = beacon.validator_registry
             /\ LET new == beacon'.validator_registry[Len(beacon.validator_registry) + 1]
                IN  /\ new.pubkey = deposit.pubkey
                    /\ new.activation_slot = FAR_FUTURE_SLOT
                    /\ new.exit_slot = FAR_FUTURE_SLOT
                    /\ new.withdrawal_slot = FAR_FUTURE_SLOT
                    /\ new.penalized_slot = FAR_FUTURE_SLOT
             /\ beacon'.validator_balances
                    = Append(beacon.validator_balances, deposit.amount)

\* The public keys of the deposits in the order of their first appearance.
RECURSIVE KeysInOrder(_, _, _)
KeysInOrder(deposits, n, acc) ==
    IF n > Len(deposits) THEN acc
    ELSE KeysInOrder(deposits, n + 1,
             IF \E k \in 1..Len(acc) : acc[k] = deposits[n].pubkey
             THEN acc ELSE Append(acc, deposits[n].pubkey))

\* The sum of the amounts deposited for the key.
RECURSIVE Deposited(_, _, _)
Deposited(deposits, n, pubkey) ==
    IF n > Len(deposits) THEN 0
    ELSE (IF deposits[n].pubkey = pubkey THEN deposits[n].amount ELSE 0)
             + Deposited(deposits, n + 1, pubkey)

\* C17: deposit processing.  process_deposit with a valid proof adds the
\* amount to the balance of the validator with the public key and leaves the
\* registry as it was, or, when no validator has the key, appends a pending
\* validator with its four lifecycle slots at FAR_FUTURE_SLOT at the index
\* that was the length of the registry, with a balance entry of the amount.
\* The deposits of the genesis build are applied in list order: the
\* validators stand in the order in which their keys first appear, each with
\* the sum of its deposits.
C17_DepositProcessing ==
    [][/\ \A deposit \in LaterDeposits :
             (ProcessDeposit(deposit) /\ call'.error = "") => DepositEffect(deposit)
       /\ (call'.op = "get_initial_beacon_state" /\ call'.outcome.error = "") =>
             /\ [i \in 1..Len(call'.outcome.state.validator_registry) |->
                    call'.outcome.state.validator_registry[i].pubkey]
                    = KeysInOrder(call'.input.initial_validator_deposits, 1, << >>)
             /\ \A i \in 1..Len(call'.outcome.state.validator_registry) :
                   call'.outcome.state.validator_balances[i]
                       = Deposited(call'.input.initial_validator_deposits, 1,
                             call'.outcome.state.validator_registry[i].pubkey)]_vars

\* A genesis build over a list that holds a second deposit for a key after a
\* deposit for a higher key.
C17_Witness ==
    /\ GenesisBuilt
    /\ Len(call.outcome.state.validator_registry) = 2
    /\ Len(call.input.initial_validator_deposits) = 3
    /\ call.outcome.state.validator_registry[1].pubkey
           > call.outcome.state.validator_registry[2].pubkey
    /\ call.outcome.state.validator_balances[2] > MAX_DEPOSIT

\* A deposit to a registry of two added to the balance of the second validator.
C17_TopUpReached ==
    /\ scenario = "registry" /\ call.op = "process_deposit" /\ call.changed
    /\ Len(beacon.validator_registry) = 2
    /\ beacon.validator_balances[2] = MAX_DEPOSIT + 1

\* A deposit to an empty registry appended a pending validator.
C17_AppendReached ==
    /\ scenario = "registry" /\ call.op = "process_deposit" /\ call.changed
    /\ Len(beacon.validator_registry) = 1
    /\ call.id = 1

\* C18 as stated: in the state get_initial_beacon_state returns,
\* latest_vdf_outputs has as many entries as latest_randao_mixes,
\* LATEST_RANDAO_MIXES_LENGTH.
C18_VdfOutputsLength ==
    GenesisBuilt =>
        /\ Len(call.outcome.state.latest_randao_mixes) = LATEST_RANDAO_MIXES_LENGTH
        /\ Len(call.outcome.state.latest_vdf_outputs) = LATEST_RANDAO_MIXES_LENGTH

\* C18, amended: in the state get_initial_beacon_state returns,
\* latest_randao_mixes has LATEST_RANDAO_MIXES_LENGTH entries and
\* latest_vdf_outputs has LATEST_RANDAO_MIXES_LENGTH \div EPOCH_LENGTH entries,
\* one for each epoch of mixes.
C18_VdfOutputsPerEpoch ==
    GenesisBuilt =>
        /\ Len(call.outcome.state.latest_randao_mixes) = LATEST_RANDAO_MIXES_LENGTH
        /\ Len(call.outcome.state.latest_vdf_outputs)
               = LATEST_RANDAO_MIXES_LENGTH \div EPOCH_LENGTH

\* A genesis build whose two buffers differ in length.
C18_Witness ==
    /\ GenesisBuilt
    /\ Len(call.outcome.state.latest_vdf_outputs)
           # Len(call.outcome.state.latest_randao_mixes)

\* The last call was a propose_block whose process_block returned.
Proposed == call.op = "propose_block" /\ call.processed

\* C19: proposer output.  A propose_block whose process_block returns gives
\* back the proposed block with its two state roots set to the hashes of the
\* states process_block computed, and a self-attestation for the block's
\* slot and the proposal's shard whose bitfield has exactly one bit set, at
\* the proposer's seat slot_number % size of its committee, and whose
\* justified slot is last_justified_slot of the state computed.
C19_ProposerOutput ==
    Proposed =>
        /\ call.outcome.error = ""
        /\ call.outcome.block.crystallized_state_root
               = StateRoot(call.outcome.crystallized_state)
        /\ call.outcome.block.active_state_root = StateRoot(call.outcome.active_state)
        /\ ~call.outcome.attestation.is_none
        /\ LET attestation == call.outcome.attestation.items[1] IN
              /\ attestation.slot = call.block.slot_number
              /\ attestation.shard_id = call.shard_id
              /\ attestation.justified_slot
                     = call.outcome.crystallized_state.last_justified_slot
              /\ Cardinality({i \in 1..Len(attestation.attester_bitfield) :
                                 attestation.attester_bitfield[i]}) = 1
              /\ attestation.attester_bitfield[
                     (call.block.slot_number % Len(attestation.attester_bitfield)) + 1]

\* What the code does: a propose_block whose process_block returns raises,
\* at the latest when the message is signed, and returns nothing.
C19_ProposeRaises == Proposed => call.outcome.error # ""

\* A propose_block reached the call of sign.
C19_SignReached == Proposed /\ call.outcome.error = "TypeError"

(***************************************************************************)
(* The cycle catch-up loop of compute_cycle_transitions (base.py, 456-477) *)
(***************************************************************************)
CaughtUp == call.op = "compute_cycle_transitions"

\* The per-cycle transitions a call of compute_cycle_transitions completed.
CyclesRun ==
    (call.outcome.crystallized_state.last_state_recalc
        - call.input.crystallized_state.last_state_recalc) \div CYCLE_LENGTH

\* C21: compute_cycle_transitions returns after running the per-cycle
\* transition floor((block.slot - r) / CYCLE_LENGTH) times for a block at or
\* after r = last_state_recalc and zero times for a block before
\* r + CYCLE_LENGTH, each run adding CYCLE_LENGTH to last_state_recalc, so that
\* on return last_state_recalc <= block.slot < last_state_recalc + CYCLE_LENGTH;
\* with zero runs the crystallized state is returned unchanged.
C21_CatchUp ==
    CaughtUp =>
        LET r == call.input.crystallized_state.last_state_recalc
            slot == call.input.block.slot_number
            returned == call.outcome.crystallized_state
        IN  /\ call.outcome.error = ""
            /\ slot >= r => CyclesRun = (slot - r) \div CYCLE_LENGTH
            /\ slot >= r => /\ returned.last_state_recalc <= slot
                            /\ slot < returned.last_state_recalc + CYCLE_LENGTH
            /\ slot < r + CYCLE_LENGTH => returned = call.input.crystallized_state

\* What holds of the calls that return: the count of runs and the bounds of
\* the cycle clock.
C21_CatchUpWhenReturned ==
    CaughtUp /\ call.outcome.error = "" =>
        LET r == call.input.crystallized_state.last_state_recalc
            slot == call.input.block.slot_number
            returned == call.outcome.crystallized_state
        IN  /\ slot >= r => CyclesRun = (slot - r) \div CYCLE_LENGTH
            /\ slot >= r => /\ returned.last_state_recalc <= slot
                            /\ slot < returned.last_state_recalc + CYCLE_LENGTH
            /\ slot < r + CYCLE_LENGTH => returned = call.input.crystallized_state

\* A call that has two cycles to catch up completes the first and raises in
\* the second.
C21_SecondRunRaises ==
    /\ CaughtUp
    /\ call.input.block.slot_number
           >= call.input.crystallized_state.last_state_recalc + 2 * CYCLE_LENGTH
    /\ CyclesRun = 1
    /\ call.outcome.error = "TypeError"

\* No call that has two cycles to catch up returns.
C21_NoTwoCycleReturn ==
    CaughtUp /\ call.input.block.slot_number
                   >= call.input.crystallized_state.last_state_recalc + 2 * CYCLE_LENGTH
        => call.outcome.error # ""

\* A call returned after one run.
C21_OneRunReturned == CaughtUp /\ call.outcome.error = "" /\ CyclesRun = 1

(***************************************************************************)
(* The walk of a per-cycle transition (base.py, 484-516), seen in the      *)
(* calls of compute_cycle_transitions that completed one run.              *)
(***************************************************************************)
OneCycleRun == CaughtUp /\ call.outcome.error = "" /\ CyclesRun = 1

\* The slots of the window of the run, and whether the balance the walk read
\* for a slot (lines 497-506) made two thirds of the total balance.
WindowSlots ==
    LET r == call.input.crystallized_state.last_state_recalc
    IN  (r - CYCLE_LENGTH)..(r - 1)

WindowJustified(slot) ==
    LET r == call.input.crystallized_state.last_state_recalc
        block == call.input.block
        block_hash == call.input.active_state.recent_block_hashes[slot - (r - CYCLE_LENGTH) + 1]
        voter_total_balance ==
            IF block_hash \in DOMAIN call.input.cache.dict[block.hash]
            THEN call.input.cache.dict[block.hash][block.hash].VOTER_TOTAL_BALANCE
            ELSE 0
    IN  3 * voter_total_balance >= 2 * total_balance(call.input.crystallized_state)

C22_StreakReset ==
    /\ OneCycleRun
    /\ \E slot \in WindowSlots : WindowJustified(slot)
    /\ call.input.crystallized_state.justified_streak > 0
    /\ call.outcome.crystallized_state.justified_streak = 0

\* The streak of the walk after window slot s: the justified slots that end
\* the slots walked so far, added to the prior streak when all were justified.
StreakAt(s) ==
    LET walked == {slot \in WindowSlots : slot <= s}
        ending == {slot \in walked :
                      \A later \in walked : later >= slot => WindowJustified(later)}
    IN  IF ending = walked
        THEN call.input.crystallized_state.justified_streak + Cardinality(walked)
        ELSE Cardinality(ending)

C23_NotYetFinal ==
    /\ OneCycleRun
    /\ \A slot \in WindowSlots : WindowJustified(slot)
    /\ call.input.crystallized_state.last_state_recalc > CYCLE_LENGTH + 1
    /\ call.outcome.crystallized_state.last_finalized_slot
           = call.input.crystallized_state.last_finalized_slot

(***************************************************************************)
(* The fold of a block's attestations into the vote cache (base.py,        *)
(* 358-374, 409-454), seen in the calls of compute_per_block_transtion.    *)
(***************************************************************************)
Folded == call.op = "compute_per_block_transtion"

\* The entry of the processed block in the cache the call left.
FoldedEntry == call.outcome.cache.dict[call.input.block.hash]

\* Attestation number n of the block gives validator v a vote for
\* parent_hash: v holds a seat whose bit is set, and the hash is one the
\* attestation signs and not one of its oblique hashes.
VotesFor(attestations, n, v, parent_hash) ==
    LET attestation == attestations[n]
        committee == get_attestation_indices(call.input.crystallized_state,
                                             attestation, CYCLE_LENGTH)
    IN  /\ \E seat \in 1..Len(committee) :
               committee[seat] = v /\ has_voted(attestation.attester_bitfield, seat - 1)
        /\ InSeq(parent_hash, SubSeq(call.input.active_state.recent_block_hashes,
                                     1, CYCLE_LENGTH))
        /\ ~InSeq(parent_hash, attestation.oblique_parent_hashes)

RECURSIVE BalanceOf(_, _)
BalanceOf(voter_indices, validators) ==
    IF voter_indices = << >> THEN 0
    ELSE validators[Head(voter_indices) + 1].balance
             + BalanceOf(Tail(voter_indices), validators)

\* C24: after the attestations of a block were folded (all of them, or those
\* before one that was rejected), for every key (block hash, parent hash) no
\* validator is recorded twice, every recorded voter holds a seat whose bit
\* is set in an attestation of the block, and the recorded balance is the
\* sum of the balances of the recorded voters.
C24_VoteAccounting ==
    Folded /\ call.input.block.hash \in DOMAIN call.outcome.cache.dict =>
        \A parent_hash \in DOMAIN FoldedEntry :
            LET voter_indices == FoldedEntry[parent_hash].VOTER_INDICES
                attestations == call.input.block.attestations
            IN  /\ \A i, j \in 1..Len(voter_indices) :
                       i # j => voter_indices[i] # voter_indices[j]
                /\ \A i \in 1..Len(voter_indices) :
                       \E n \in 1..Len(attestations) :
                           VotesFor(attestations, n, voter_indices[i], parent_hash)
                /\ FoldedEntry[parent_hash].VOTER_TOTAL_BALANCE =
                       BalanceOf(voter_indices,
                                 call.input.crystallized_state.validators.items)

\* A fold in which a validator recorded for a key had its bit set in two
\* attestations of the block, and the key holds both validators.
C24_Witness ==
    /\ Folded /\ call.outcome.error = ""
    /\ \E parent_hash \in DOMAIN FoldedEntry :
           /\ Len(FoldedEntry[parent_hash].VOTER_INDICES) = 2
           /\ \E n, m \in 1..Len(call.input.block.attestations) :
                  /\ n # m
                  /\ VotesFor(call.input.block.attestations, n, 1, parent_hash)
                  /\ VotesFor(call.input.block.attestations, m, 1, parent_hash)

\* The orders of n attestations, and the voters a cache entry records for a
\* parent hash, as a set.
Orders(n) == {p \in [1..n -> 1..n] : \A i, j \in 1..n : i # j => p[i] # p[j]}

VoterSet(entry, parent_hash) ==
    {entry[parent_hash].VOTER_INDICES[i] : i \in 1..Len(entry[parent_hash].VOTER_INDICES)}

\* The cache entry of the block after the transition of the block with its
\* attestations in the order p, from the same prior state and cache.
FoldedInOrder(p) ==
    LET block == call.input.block
        reordered == [block EXCEPT !.attestations = [i \in 1..Len(p) |-> block.attestations[p[i]]]]
    IN  compute_per_block_transtion(EmptyCache, call.input.crystallized_state,
            call.input.active_state, reordered, FoldChain, CYCLE_LENGTH)

\* C25: for a fixed prior state and block, folding the block's attestations
\* in any order leaves, for every key (block hash, parent hash), the same set
\* of voters and the same total balance; a validator whose bit is set in
\* several attestations for a key is counted once.
C25_OrderIndependence ==
    Folded /\ call.outcome.error = "" =>
        \A p \in Orders(Len(call.input.block.attestations)) :
            \E other \in {FoldedInOrder(p)} :
                /\ other.error = ""
                /\ DOMAIN other.cache.dict[call.input.block.hash] = DOMAIN FoldedEntry
                /\ \A parent_hash \in DOMAIN FoldedEntry :
                       /\ VoterSet(other.cache.dict[call.input.block.hash], parent_hash)
                              = VoterSet(FoldedEntry, parent_hash)
                       /\ other.cache.dict[call.input.block.hash][parent_hash].VOTER_TOTAL_BALANCE
                              = FoldedEntry[parent_hash].VOTER_TOTAL_BALANCE
                       /\ Cardinality(VoterSet(FoldedEntry, parent_hash))
                              = Len(FoldedEntry[parent_hash].VOTER_INDICES)

\* A fold of three attestations, two of them with the bit of validator 1,
\* in which another order records the voters of a key in another sequence.
C25_Witness ==
    /\ Folded /\ call.outcome.error = ""
    /\ Len(call.input.block.attestations) = 3
    /\ \E parent_hash \in DOMAIN FoldedEntry :
           /\ \E n, m \in 1..3 :
                  /\ n # m
                  /\ VotesFor(call.input.block.attestations, n, 1, parent_hash)
                  /\ VotesFor(call.input.block.attestations, m, 1, parent_hash)
           /\ \E p \in Orders(3) :
                  FoldedInOrder(p).cache.dict[call.input.block.hash][parent_hash].VOTER_INDICES
                      # FoldedEntry[parent_hash].VOTER_INDICES

\* C26: the per-block transition returns an active state whose
\* pending_attestations are the prior ones followed by the block's
\* attestations in the order of the block body, and whose recent_block_hashes
\* are the new ring (the prior ring moved on by the slots since the parent,
\* the places freed holding the parent's hash); it does not change the
\* crystallized state: process_block without a cycle to catch up returns the
\* crystallized state it was given.
C26_PendingAppended ==
    /\ Folded /\ call.outcome.error = "" =>
           LET prior == call.input.active_state
               block == call.input.block
               shift_size == block.slot_number - HeadOf(FoldChain).slot_number
               ring == call.outcome.active_state.recent_block_hashes
           IN  /\ call.outcome.active_state.pending_attestations
                      = prior.pending_attestations \o block.attestations
               /\ Len(ring) = Len(prior.recent_block_hashes)
               /\ \A i \in 1..Len(ring) :
                      ring[i] = IF i + shift_size <= Len(ring)
                                THEN prior.recent_block_hashes[i + shift_size]
                                ELSE block.parent_hash
    /\ /\ call.op = "process_block"
       /\ call.outcome.error = ""
       /\ call.block.slot_number < call.crystallized_state.last_state_recalc + CYCLE_LENGTH
       => /\ call.outcome.crystallized_state = call.crystallized_state
          /\ call.outcome.active_state.pending_attestations
                 = call.active_state.pending_attestations \o call.block.attestations

\* A transition that appended two attestations to a pending one and moved the
\* ring by one slot.
C26_Witness ==
    /\ Folded /\ call.outcome.error = ""
    /\ Len(call.input.active_state.pending_attestations) = 1
    /\ Len(call.input.block.attestations) = 2
    /\ call.input.block.attestations[1] # call.input.block.attestations[2]
    /\ call.input.block.attestations[1] # call.input.active_state.pending_attestations[1]
    /\ call.input.block.slot_number = HeadOf(FoldChain).slot_number + 1
    /\ call.outcome.active_state.recent_block_hashes
           # call.input.active_state.recent_block_hashes

\* A process_block call that returned without a cycle transition.
C26_ProcessedInCycle ==
    /\ call.op = "process_block"
    /\ call.outcome.error = ""
    /\ call.block.slot_number < call.crystallized_state.last_state_recalc + CYCLE_LENGTH

(***************************************************************************)
(* The lifecycle calls of validator_status_helpers.py, step by step.       *)
(***************************************************************************)
LifecycleStep(op) == call' # call /\ scenario = "registry" /\ call'.op = op

\* C27: exit_validator returns the state unchanged when the validator's
\* exit_slot is at most state.slot + ENTRY_EXIT_DELAY; otherwise it adds 1 to
\* the exit counter, sets the validator's exit_slot to
\* state.slot + ENTRY_EXIT_DELAY and its exit_count to the new counter, extends
\* the delta chain with an EXIT block, and changes nothing else (no other
\* validator, no balance); so an exit of the same validator at the same slot
\* right after is a no-op.
C27_Exit ==
    [][LifecycleStep("exit_validator") =>
          LET validator == beacon.validator_registry[call'.index + 1] IN
          IF validator.exit_slot <= beacon.slot + ENTRY_EXIT_DELAY
          THEN beacon' = beacon
          ELSE /\ beacon' =
                      [beacon EXCEPT
                          !.validator_registry_exit_count = @ + 1,
                          !.validator_registry[call'.index + 1] =
                              [validator EXCEPT
                                  !.exit_slot = beacon.slot + ENTRY_EXIT_DELAY,
                                  !.exit_count = beacon.validator_registry_exit_count + 1],
                          !.validator_registry_delta_chain_tip =
                              Append(@, [validator_index |-> call'.index,
                                         pubkey |-> validator.pubkey,
                                         slot |-> beacon.slot + ENTRY_EXIT_DELAY,
                                         flag |-> "EXIT"])]
               /\ beacon'.validator_balances = beacon.validator_balances
               /\ \A other \in 1..Len(beacon.validator_registry) :
                      other # call'.index + 1 =>
                          beacon'.validator_registry[other] = beacon.validator_registry[other]
               /\ exit_validator(beacon', call'.index, ENTRY_EXIT_DELAY) = beacon'
      ]_vars

\* An exit that changed the state of a registry of two validators.
C27_Witness ==
    /\ scenario = "registry" /\ call.op = "exit_validator" /\ call.changed
    /\ Len(beacon.validator_registry) = 2
    /\ beacon.validator_registry[call.index + 1].exit_count
           = beacon.validator_registry_exit_count
    /\ beacon.validator_registry_exit_count > 0

\* A second exit of a validator that had exited: a no-op.
C27_SecondExit ==
    /\ scenario = "registry" /\ call.op = "exit_validator" /\ ~call.changed
    /\ beacon.validator_registry[call.index + 1].exit_count > 0

\* C28: activate_validator sets the validator's activation_slot to the genesis
\* slot when genesis is true and to state.slot + ENTRY_EXIT_DELAY otherwise,
\* extends the delta chain with an ACTIVATION block stamped with that slot,
\* and leaves every other validator, every balance and the exit counter as
\* they were.
C28_Activation ==
    [][LifecycleStep("activate_validator") =>
          LET validator == beacon.validator_registry[call'.index + 1]
              activation_slot == IF call'.genesis THEN GENESIS_SLOT
                                 ELSE beacon.slot + ENTRY_EXIT_DELAY
          IN  /\ beacon' =
                     [beacon EXCEPT
                         !.validator_registry[call'.index + 1] =
                             [validator EXCEPT !.activation_slot = activation_slot],
                         !.validator_registry_delta_chain_tip =
                             Append(@, [validator_index |-> call'.index,
                                        pubkey |-> validator.pubkey,
                                        slot |-> activation_slot,
                                        flag |-> "ACTIVATION"])]
              /\ beacon'.validator_balances = beacon.validator_balances
              /\ beacon'.validator_registry_exit_count = beacon.validator_registry_exit_count
              /\ \A other \in 1..Len(beacon.validator_registry) :
                     other # call'.index + 1 =>
                         beacon'.validator_registry[other] = beacon.validator_registry[other]
      ]_vars

\* An activation that is not the genesis one, at a slot after the genesis
\* slot, of a validator of a registry of two.
C28_Witness ==
    /\ scenario = "registry" /\ call.op = "activate_validator" /\ ~call.genesis
    /\ Len(beacon.validator_registry) = 2
    /\ beacon.slot > GENESIS_SLOT
    /\ beacon.validator_registry[call.index + 1].activation_slot
           = beacon.slot + ENTRY_EXIT_DELAY

\* A genesis activation made after the genesis slot.
C28_GenesisActivation ==
    /\ scenario = "registry" /\ call.op = "activate_validator" /\ call.genesis
    /\ beacon.slot > GENESIS_SLOT
    /\ beacon.validator_registry[call.index + 1].activation_slot = GENESIS_SLOT

RECURSIVE BalanceSum(_)
BalanceSum(validator_balances) ==
    IF validator_balances = << >> THEN 0
    ELSE Head(validator_balances) + BalanceSum(Tail(validator_balances))

\* The bucket of latest_penalized_exit_balances a penalization at the slot of
\* the state writes, the effective balance of the validator penalized, and the
\* whistleblower's reward.
Penalized == LifecycleStep("penalize_validator")
PenaltyBucket == ((beacon.slot \div EPOCH_LENGTH) % LATEST_PENALIZED_EXIT_LENGTH) + 1
EffectiveBalance == Min(beacon.validator_balances[call'.index + 1], MAX_DEPOSIT)
WhistleblowerReward == EffectiveBalance \div WHISTLEBLOWER_REWARD_QUOTIENT

\* C29: penalize_validator adds the validator's effective balance to the
\* entry of latest_penalized_exit_balances at index
\* (state.slot / EPOCH_LENGTH) mod LATEST_PENALIZED_EXIT_LENGTH: the entry is
\* then an amount, its previous value plus the effective balance, and every
\* other entry is unchanged.
C29_PenaltyBucket ==
    [][Penalized =>
          /\ call'.error = ""
          /\ beacon'.latest_penalized_exit_balances =
                 [beacon.latest_penalized_exit_balances EXCEPT
                     ![PenaltyBucket] = Number(@.value + EffectiveBalance)]
      ]_vars

\* What holds of the penalizations that return: the entry of the bucket is
\* the 1-tuple of the sum, and every other entry is unchanged.
C29_BucketHoldsTuple ==
    [][Penalized /\ call'.error = "" =>
          beacon'.latest_penalized_exit_balances =
              [beacon.latest_penalized_exit_balances EXCEPT
                  ![PenaltyBucket] = Tuple1(@.value + EffectiveBalance)]
      ]_vars

\* A penalization raises exactly when its bucket holds a tuple already.
C29_SecondPenaltyRaises ==
    [][Penalized =>
          (call'.error = "TypeError"
              <=> beacon.latest_penalized_exit_balances[PenaltyBucket].is_tuple)
      ]_vars

\* A penalization that raised.
C29_Raised ==
    scenario = "registry" /\ call.op = "penalize_validator" /\ call.error = "TypeError"

\* C30: penalize_validator credits effective_balance divided by
\* WHISTLEBLOWER_REWARD_QUOTIENT to the balance of the proposer of the slot
\* and debits it from the validator penalized, so that the sum of the
\* balances is unchanged when the two differ.
C30_WhistleblowerReward ==
    [][Penalized /\ call'.error = ""
           /\ get_beacon_proposer_index(beacon, beacon.slot, EPOCH_LENGTH) # call'.index
       => LET whistleblower_index ==
                  get_beacon_proposer_index(beacon, beacon.slot, EPOCH_LENGTH)
          IN  /\ beacon'.validator_balances[whistleblower_index + 1]
                     = beacon.validator_balances[whistleblower_index + 1]
                           + WhistleblowerReward
              /\ beacon'.validator_balances[call'.index + 1]
                     = beacon.validator_balances[call'.index + 1] - WhistleblowerReward
              /\ BalanceSum(beacon'.validator_balances)
                     = BalanceSum(beacon.validator_balances)
      ]_vars

\* What holds of the penalizations that return: the proposer and the
\* validator are both debited (twice when they are the same validator), and
\* no other balance changes.
C30_BothDebited ==
    [][Penalized /\ call'.error = "" =>
          LET whistleblower_index ==
                  get_beacon_proposer_index(beacon, beacon.slot, EPOCH_LENGTH)
          IN  beacon'.validator_balances =
                  [i \in 1..Len(beacon.validator_balances) |->
                      beacon.validator_balances[i]
                          - (IF i = whistleblower_index + 1 THEN WhistleblowerReward ELSE 0)
                          - (IF i = call'.index + 1 THEN WhistleblowerReward ELSE 0)]
      ]_vars

\* A penalization with a reward above 0 left a balance below 0.
C30_Overdrawn ==
    /\ scenario = "registry" /\ call.op = "penalize_validator" /\ call.error = ""
    /\ \E i \in 1..Len(beacon.validator_balances) : beacon.validator_balances[i] < 0

\* C31: penalize_validator applies exit_validator and then the settlement:
\* after a penalization that returns, the validator's exit_slot is at most
\* state.slot + ENTRY_EXIT_DELAY (the exit's stamp, or an earlier one) and its
\* penalized_slot is state.slot, while its activation_slot, withdrawal_slot
\* and status flags are as before; the rest of the record is what
\* exit_validator made of it.
C31_PenalizeOrdering ==
    [][Penalized /\ call'.error = "" =>
          LET before == beacon.validator_registry[call'.index + 1]
              exited == exit_validator(beacon, call'.index, ENTRY_EXIT_DELAY)
              after == beacon'.validator_registry[call'.index + 1]
          IN  /\ after.exit_slot <= beacon.slot + ENTRY_EXIT_DELAY
              /\ after.exit_slot = Min(before.exit_slot, beacon.slot + ENTRY_EXIT_DELAY)
              /\ after.penalized_slot = beacon.slot
              /\ after.activation_slot = before.activation_slot
              /\ after.withdrawal_slot = before.withdrawal_slot
              /\ after.status_flags = before.status_flags
              /\ after = [exited.validator_registry[call'.index + 1] EXCEPT
                             !.penalized_slot = beacon.slot]
              /\ beacon'.validator_registry_exit_count = exited.validator_registry_exit_count
              /\ beacon'.validator_registry_delta_chain_tip
                     = exited.validator_registry_delta_chain_tip
      ]_vars

\* A penalization, after the genesis slot, of a validator that had not
\* exited: it exited and was stamped.
C31_Witness ==
    /\ scenario = "registry" /\ call.op = "penalize_validator" /\ call.error = ""
    /\ call.changed
    /\ beacon.slot > GENESIS_SLOT
    /\ LET validator == beacon.validator_registry[call.index + 1]
       IN  /\ validator.penalized_slot = beacon.slot
           /\ validator.exit_slot = beacon.slot + ENTRY_EXIT_DELAY
           /\ validator.exit_count = beacon.validator_registry_exit_count
           /\ validator.exit_count > 0

\* A penalization of a validator that had exited at an earlier slot.
C31_PenalizedAfterExit ==
    /\ scenario = "registry" /\ call.op = "penalize_validator" /\ call.error = ""
    /\ LET validator == beacon.validator_registry[call.index + 1]
       IN  /\ validator.penalized_slot = beacon.slot
           /\ validator.exit_slot < beacon.slot + ENTRY_EXIT_DELAY

AskedReady == call.op = "ready_for_dynasty_transition"

\* The shards named by some committee of the schedule of the state asked about.
ScheduledShards ==
    LET sched == call.input.crystallized_state.shard_and_committee_for_slots IN
    {shard \in 0..(SHARD_COUNT - 1) :
        \E i \in 1..Len(sched) : \E c \in 1..Len(sched[i]) : sched[i][c].shard_id = shard}

\* C34: for a state that has crosslink records, ready_for_dynasty_transition
\* returns true exactly when the block is MIN_DYNASTY_LENGTH or more slots
\* after dynasty_start, last_finalized_slot is after dynasty_start, and the
\* crosslink of every scheduled shard is dated after dynasty_start; the
\* crosslinks of the other shards have no say.
C34_DynastyEligibility ==
    (AskedReady /\ ~call.input.crystallized_state.crosslink_records.is_none) =>
        LET prior == call.input.crystallized_state
            links == prior.crosslink_records.items
        IN  /\ call.outcome \in {"True", "False"}
            /\ call.outcome = "True" <=>
                   /\ call.input.slot_number - prior.dynasty_start >= MIN_DYNASTY_LENGTH
                   /\ prior.last_finalized_slot > prior.dynasty_start
                   /\ \A shard \in ScheduledShards : links[shard + 1].slot > prior.dynasty_start

\* The answer was true although an unscheduled shard has a stale crosslink.
C34_Witness ==
    /\ AskedReady
    /\ call.outcome = "True"
    /\ ~call.input.crystallized_state.crosslink_records.is_none
    /\ \E shard \in (0..(SHARD_COUNT - 1)) \ ScheduledShards :
           call.input.crystallized_state.crosslink_records.items[shard + 1].slot
               <= call.input.crystallized_state.dynasty_start

\* Without crosslink records (what a per-cycle transition leaves) the test
\* answers false on the first two conditions and raises otherwise.
C34_NoRecordsRaises ==
    (AskedReady /\ call.input.crystallized_state.crosslink_records.is_none) =>
        LET prior == call.input.crystallized_state IN
        call.outcome =
            IF /\ call.input.slot_number - prior.dynasty_start >= MIN_DYNASTY_LENGTH
               /\ prior.last_finalized_slot > prior.dynasty_start
            THEN "TypeError" ELSE "False"

DynastyTurned == call.op = "compute_dynasty_transition"

\* C35: on an eligible state the dynasty transition yields a crystallized
\* state with current_dynasty one higher, dynasty_start at the block's slot, a
\* new dynasty_seed, a committee schedule whose front half is kept and whose
\* back half is a schedule of 2 * CYCLE_LENGTH slots, and the other fields kept.
C35_DynastyTransition ==
    DynastyTurned =>
        LET prior == call.input.crystallized_state
            sched == prior.shard_and_committee_for_slots
        IN  /\ ~call.outcome.is_none
            /\ call.outcome.items.current_dynasty = prior.current_dynasty + 1
            /\ call.outcome.items.dynasty_start = call.input.slot_number
            /\ call.outcome.items.dynasty_seed # prior.dynasty_seed
            /\ Len(call.outcome.items.shard_and_committee_for_slots) = Len(sched)
            /\ SubSeq(call.outcome.items.shard_and_committee_for_slots, 1, CYCLE_LENGTH)
                   = SubSeq(sched, 1, CYCLE_LENGTH)
            /\ call.outcome.items.validators = prior.validators
            /\ call.outcome.items.last_state_recalc = prior.last_state_recalc
            /\ call.outcome.items.crosslink_records = prior.crosslink_records

\* What the code does: the transition returns None on every eligible state.
C35_ReturnsNone == DynastyTurned => call.outcome = NoneValue

\* The transition has run on an eligible state.
C35_Turned == DynastyTurned /\ call.outcome.is_none

\* A catch-up that returns has not changed the dynasty.
C35_NoDynastyAfterCatchUp ==
    (CaughtUp /\ call.outcome.error = "") =>
        /\ call.outcome.crystallized_state.current_dynasty
               = call.input.crystallized_state.current_dynasty
        /\ call.outcome.crystallized_state.dynasty_start
               = call.input.crystallized_state.dynasty_start
        /\ call.outcome.crystallized_state.dynasty_seed
               = call.input.crystallized_state.dynasty_seed

WindowRead == call.op = "shuffle_window"

\* The values with the places i and j, counted from 0, exchanged.
Exchanged(values, i, j) ==
    [k \in 1..Len(values) |->
        IF k = i + 1 THEN values[j + 1] ELSE IF k = j + 1 THEN values[i + 1] ELSE values[k]]

\* The outcome of a window that accepts exactly the samples below sample_max.
WindowAccepts(sample_max) ==
    LET i == call.input.index
        r == call.input.sample
        remaining == Len(call.input.values) - i
    IN  IF r < sample_max
        THEN /\ call.outcome.index = i + 1
             /\ call.outcome.output = Exchanged(call.input.values, i, i + (r % remaining))
        ELSE /\ call.outcome.index = i
             /\ call.outcome.output = call.input.values

\* C36 as stated: a window with remaining = n - i > 1 swaps and advances
\* exactly when r < 2^24 - (2^24 mod remaining).
C36_RejectionSampling ==
    WindowRead =>
        LET remaining == Len(call.input.values) - call.input.index IN
        WindowAccepts(16777216 - (16777216 % remaining))

\* C36 amended: a window with remaining = n - i > 1 swaps V[i] with
\* V[i + (r mod remaining)] and advances i exactly when
\* r < RAND_MAX - (RAND_MAX mod remaining) with RAND_MAX = 2^24 - 1, and
\* otherwise changes nothing; a shuffle of one or more values returns with
\* i = n - 1.
C36_RejectionSamplingRandMax ==
    /\ WindowRead =>
           LET remaining == Len(call.input.values) - call.input.index IN
           WindowAccepts(16777215 - (16777215 % remaining))
    /\ (call.op = "shuffle" /\ ~call.outcome.exhausted /\ Len(call.input.values) >= 1) =>
           call.outcome.index = Len(call.input.values) - 1

\* A window with remaining = 2 has rejected the sample 2^24 - 2.
C36_Witness ==
    /\ WindowRead
    /\ Len(call.input.values) - call.input.index = 2
    /\ call.input.sample = 16777214
    /\ call.outcome.index = call.input.index
    /\ call.outcome.output = call.input.values

Searched == call.op = "get_prev_blocks"
SearchFrom == call.input.last_block_hash
InChain(hash) == \E b \in AncestorChain : b.hash = hash
BlockOf(hash) == CHOOSE b \in AncestorChain : b.hash = hash

\* The blocks returned start at the block of last_block_hash, follow the parent
\* hashes, and are at most max_search_depth.
FollowsParents(blocks) ==
    /\ Len(blocks) <= call.input.max_search_depth
    /\ Len(blocks) >= 1 => blocks[1] = BlockOf(SearchFrom)
    /\ \A i \in 1..(Len(blocks) - 1) : blocks[i + 1] = BlockOf(blocks[i].parent_hash)

\* C37 as stated: get_prev_blocks returns nothing for the genesis parent
\* hash, and otherwise a chain from the block of last_block_hash along the
\* parent hashes with at most max_search_depth blocks, none of them of a slot
\* below min_slot_number.
C37_BoundedAncestorSearch ==
    Searched =>
        IF SearchFrom = GENESIS_PARENT_HASH THEN call.outcome.blocks = << >>
        ELSE InChain(SearchFrom) =>
                 /\ call.outcome.error = ""
                 /\ FollowsParents(call.outcome.blocks)
                 /\ \A i \in 1..Len(call.outcome.blocks) :
                        call.outcome.blocks[i].slot_number >= call.input.min_slot_number

\* What the search does: the chain is as long as the depth allows unless the
\* parent of its last block is missing or of a slot below min_slot_number;
\* every block after the first is of a slot at or above min_slot_number, the
\* first is returned whatever its slot; a start hash of no block raises.
C37_FirstBlockUnchecked ==
    Searched =>
        IF SearchFrom = GENESIS_PARENT_HASH
        THEN call.outcome = [error |-> "", blocks |-> << >>]
        ELSE IF ~InChain(SearchFrom)
        THEN call.outcome = [error |-> "BlockNotFound", blocks |-> << >>]
        ELSE LET blocks == call.outcome.blocks IN
             /\ call.outcome.error = ""
             /\ FollowsParents(blocks)
             /\ call.input.max_search_depth >= 1 => Len(blocks) >= 1
             /\ \A i \in 2..Len(blocks) :
                    blocks[i].slot_number >= call.input.min_slot_number
             /\ (Len(blocks) >= 1 /\ Len(blocks) < call.input.max_search_depth) =>
                    \/ ~InChain(blocks[Len(blocks)].parent_hash)
                    \/ BlockOf(blocks[Len(blocks)].parent_hash).slot_number
                           < call.input.min_slot_number

\* A search returned its first block although its slot is below min_slot_number.
C37_FirstBelowMin ==
    /\ Searched
    /\ Len(call.outcome.blocks) = 1
    /\ call.outcome.blocks[1].slot_number < call.input.min_slot_number

\* A search from a block at or above min_slot_number, as the active_state
\* property makes it, returns no block below min_slot_number.
C37_FromRecentBlock ==
    (Searched /\ InChain(SearchFrom)
        /\ BlockOf(SearchFrom).slot_number >= call.input.min_slot_number) =>
        \A i \in 1..Len(call.outcome.blocks) :
            call.outcome.blocks[i].slot_number >= call.input.min_slot_number

C38_RegistryDropped ==
    OneCycleRun =>
        /\ call.outcome.crystallized_state.validators = NoneValue
        /\ call.outcome.crystallized_state.crosslink_records = NoneValue
        /\ ~call.input.crystallized_state.validators.is_none
        /\ ~call.input.crystallized_state.crosslink_records.is_none

\* A transition without pending attestations has returned.
C38_Returned ==
    OneCycleRun /\ call.input.active_state.pending_attestations = << >>

\* The parent hashes the attestations of the processed block sign when read
\* from the ring recent_block_hashes: its first CYCLE_LENGTH hashes, without
\* those an attestation lists as oblique.
SignedFrom(recent_block_hashes) ==
    {parent_hash \in {recent_block_hashes[i] : i \in 1..CYCLE_LENGTH} :
        \E n \in 1..Len(call.input.block.attestations) :
            ~InSeq(parent_hash, call.input.block.attestations[n].oblique_parent_hashes)}

FoldedVotes ==
    Folded /\ call.outcome.error = "" /\ call.input.block.attestations # << >>

\* C39: the votes of a block's attestations are recorded under the parent
\* hashes read from the ring the attestations were validated against, the
\* ring the per-block transition computes for the block and returns.
C39_SameRing ==
    FoldedVotes =>
        DOMAIN FoldedEntry = SignedFrom(call.outcome.active_state.recent_block_hashes)

\* What the fold does: the votes are recorded under the parent hashes read
\* from the ring of the prior active state.
C39_PriorRing ==
    FoldedVotes =>
        DOMAIN FoldedEntry = SignedFrom(call.input.active_state.recent_block_hashes)

\* A vote was recorded under a hash that is not among the first CYCLE_LENGTH
\* hashes of the ring the attestation was validated against.
C39_StaleHash ==
    /\ FoldedVotes
    /\ \E parent_hash \in DOMAIN FoldedEntry :
           /\ FoldedEntry[parent_hash].VOTER_INDICES # << >>
           /\ ~InSeq(parent_hash,
                     SubSeq(call.outcome.active_state.recent_block_hashes, 1, CYCLE_LENGTH))

\* A call of import_block or process_block that raised.
Rejected ==
    /\ call' # call
    /\ scenario = "machine"
    /\ call'.op \in {"import_block", "process_block"}
    /\ call'.outcome.error # ""

\* C40: a call of import_block or of the block transition that raises leaves
\* the vote cache with the keys, voters and balances it had before the call.
C40_RejectedLeavesCache ==
    [][Rejected => block_vote_cache'.dict = block_vote_cache.dict]_vars

\* What a rejected call leaves: the cache is as before when import_block
\* finds no entry for the machine's block (KeyError at the first line) and
\* when process_block does not find the parent block; every other rejected
\* import_block leaves an entry for the rejected block.
C40_RejectedLeavesEntry ==
    [][Rejected =>
          /\ (call'.op = "import_block"
                 /\ machine.block.hash \notin DOMAIN block_vote_cache.dict) =>
                 block_vote_cache' = block_vote_cache
          /\ (call'.op = "import_block"
                 /\ machine.block.hash \in DOMAIN block_vote_cache.dict) =>
                 call'.block.hash \in DOMAIN block_vote_cache'.dict
          /\ (call'.op = "process_block" /\ call'.outcome.error = "BlockNotFound") =>
                 block_vote_cache' = block_vote_cache]_vars

\* A block was rejected for its second attestation, and the cache holds the
\* vote of its first.
C40_VoteOfRejectedBlock ==
    /\ scenario = "machine"
    /\ call.op = "import_block"
    /\ call.outcome.error = "ValidationError"
    /\ Len(call.block.attestations) = 2
    /\ call.block.hash \in DOMAIN block_vote_cache.dict
    /\ \E parent_hash \in DOMAIN block_vote_cache.dict[call.block.hash] :
           block_vote_cache.dict[call.block.hash][parent_hash].VOTER_INDICES # << >>

====
